---- MODULE Spec2Model ----
(***************************************************************************)
(* Model of the linear-programming solver of programacionLineal:           *)
(*   - SimplexSolver (src/lib/simplex-solver.ts): standard form, initial   *)
(*     tableau, entering/leaving rules, pivot, optimality re-check,        *)
(*     solution extraction, the 50-iteration cap;                          *)
(*   - performSensitivityAnalysis (src/lib/sensitivity-analysis.ts);       *)
(*   - computeGraphData and its helpers (src/components/problem-solver.tsx)*)
(*   - the ProblemSolver component that submits a problem to the solver.   *)
(*                                                                         *)
(* JavaScript numbers are modelled as exact rationals <<num, den>> in      *)
(* lowest terms with den > 0.  Every comparison of the code, tolerances    *)
(* included, is carried out on these exact values.  Array indices keep the *)
(* code's 0-based values; TLA+ sequences are 1-based, so the element at    *)
(* code index i is read at position i + 1.                                 *)
(***************************************************************************)
EXTENDS Integers, Sequences, FiniteSets, TLC

(***************************************************************************)
(* Exact arithmetic standing for the JavaScript number operations.         *)
(***************************************************************************)
Abs(x) == IF x < 0 THEN -x ELSE x

RECURSIVE GCD(_, _)
GCD(a, b) == IF b = 0 THEN a ELSE GCD(b, a % b)

Norm(n, d) ==
    LET g == GCD(Abs(n), Abs(d))
        s == IF d < 0 THEN -1 ELSE 1
    IN  <<(s * n) \div g, (s * d) \div g>>

Q(k) == <<k, 1>>
Zero == Q(0)
One == Q(1)
Neg(a) == <<-a[1], a[2]>>
Add(a, b) == Norm(a[1] * b[2] + b[1] * a[2], a[2] * b[2])
Sub(a, b) == Norm(a[1] * b[2] - b[1] * a[2], a[2] * b[2])
Mul(a, b) == Norm(a[1] * b[1], a[2] * b[2])
Div(a, b) == Norm(a[1] * b[2], a[2] * b[1])
Lt(a, b) == a[1] * b[2] < b[1] * a[2]
Le(a, b) == a[1] * b[2] <= b[1] * a[2]
AbsQ(a) == <<Abs(a[1]), a[2]>>

\* Comparisons against the code's tolerances on a rational num/den, den > 0,
\* written with integer division so that no product leaves 32 bits:
\*   num * K <  den  <=>  num <= (den - 1) \div K      (num >= 0)
\*   num * K <= den  <=>  num <= den \div K
Tol6 == 1000000
Tol8 == 100000000

\* x < -1e-10:  den < (-num) * 10^10  <=>  (den \div 10^5) \div 10^5 < -num
LtNegTol10(x) == x[1] < 0 /\ (x[2] \div 100000) \div 100000 < -x[1]
\* x <= 1e-8
LeTol8(x) == x[1] <= x[2] \div Tol8
\* x <= 1e-6
LeTol6(x) == x[1] <= x[2] \div Tol6
\* |x| < 1e-8
AbsLtTol8(x) == Abs(x[1]) <= (x[2] - 1) \div Tol8
\* |x| < 1e-6
AbsLtTol6(x) == Abs(x[1]) <= (x[2] - 1) \div Tol6
\* |x| <= 1e-6
AbsLeTol6(x) == Abs(x[1]) <= x[2] \div Tol6
\* |x| <= 1e-3
AbsLeTol3(x) == Abs(x[1]) <= x[2] \div 1000

(***************************************************************************)
(* Values of optional fields that the code leaves undefined.               *)
(***************************************************************************)
UndefinedIndex == -1
UndefinedName == "undefined"

Last(seq) == seq[Len(seq)]

\* [...seq]: a fresh array holding the elements of seq
Spread(seq) == SubSeq(seq, 1, Len(seq))

\* `s${i + 1}` for the 0-based index i
SlackName(i) == "s" \o ToString(i + 1)

(***************************************************************************)
(* SimplexSolver internals                                                 *)
(***************************************************************************)
\* variant: the objective of a minimization is not negated
convertToStandardForm_NoNegation(objectiveCoefficients, constraintMatrix, rhsVector, isMaximization, variables) ==
    LET numConstraints == Len(constraintMatrix)
        slackVariables == [i \in 1..numConstraints |-> SlackName(i - 1)]
    IN  [objectiveCoefficients |-> objectiveCoefficients \o [j \in 1..numConstraints |-> Zero],
         constraintMatrix |-> [i \in 1..numConstraints |->
                                  constraintMatrix[i] \o [j \in 1..numConstraints |-> IF i = j THEN One ELSE Zero]],
         rhsVector |-> rhsVector,
         variables |-> variables \o slackVariables,
         originalVariables |-> variables,
         slackVariables |-> slackVariables,
         numOriginalVars |-> Len(objectiveCoefficients),
         numConstraints |-> numConstraints]

convertToStandardForm(objectiveCoefficients, constraintMatrix, rhsVector, isMaximization, variables) ==
    LET objCoeffs == IF isMaximization
                     THEN objectiveCoefficients
                     ELSE [k \in 1..Len(objectiveCoefficients) |-> Neg(objectiveCoefficients[k])]
        numConstraints == Len(constraintMatrix)
        numOriginalVars == Len(objectiveCoefficients)
        extendedMatrix == [i \in 1..numConstraints |->
                              constraintMatrix[i] \o [j \in 1..numConstraints |-> IF i = j THEN One ELSE Zero]]
        extendedObjCoeffs == objCoeffs \o [j \in 1..numConstraints |-> Zero]
        slackVariables == [i \in 1..numConstraints |-> SlackName(i - 1)]
        allVariables == variables \o slackVariables
    IN  [objectiveCoefficients |-> extendedObjCoeffs,
         constraintMatrix |-> extendedMatrix,
         rhsVector |-> rhsVector,
         variables |-> allVariables,
         originalVariables |-> variables,
         slackVariables |-> slackVariables,
         numOriginalVars |-> numOriginalVars,
         numConstraints |-> numConstraints]

\* variant: the objective row holds the coefficients without the sign change
createInitialTableau_ObjectiveNotNegated(standardForm) ==
    LET tableau == [i \in 1..Len(standardForm.constraintMatrix) |->
                       Append(standardForm.constraintMatrix[i], standardForm.rhsVector[i])]
                   \o <<Append(standardForm.objectiveCoefficients, Zero)>>
    IN  [tableau |-> tableau,
         basicVariables |-> Spread(standardForm.slackVariables),
         nonBasicVariables |-> SubSeq(standardForm.variables, 1, standardForm.numOriginalVars),
         objectiveRow |-> Last(tableau),
         rhsColumn |-> [i \in 1..Len(tableau) |-> Last(tableau[i])],
         iteration |-> 0,
         isOptimal |-> FALSE,
         isUnbounded |-> FALSE,
         pivotRow |-> UndefinedIndex,
         pivotColumn |-> UndefinedIndex,
         enteringVariable |-> UndefinedName,
         leavingVariable |-> UndefinedName]

createInitialTableau(standardForm) ==
    LET tableau == [i \in 1..Len(standardForm.constraintMatrix) |->
                       Append(standardForm.constraintMatrix[i], standardForm.rhsVector[i])]
                   \o <<Append([k \in 1..Len(standardForm.objectiveCoefficients) |->
                                   Neg(standardForm.objectiveCoefficients[k])], Zero)>>
    IN  [tableau |-> tableau,
         basicVariables |-> Spread(standardForm.slackVariables),
         nonBasicVariables |-> SubSeq(standardForm.variables, 1, standardForm.numOriginalVars),
         objectiveRow |-> Last(tableau),
         rhsColumn |-> [i \in 1..Len(tableau) |-> Last(tableau[i])],
         iteration |-> 0,
         isOptimal |-> FALSE,
         isUnbounded |-> FALSE,
         pivotRow |-> UndefinedIndex,
         pivotColumn |-> UndefinedIndex,
         enteringVariable |-> UndefinedName,
         leavingVariable |-> UndefinedName]

\* the for loop of findEnteringVariable, from column j on
RECURSIVE EnteringScan(_, _, _, _, _)
EnteringScan(objectiveRow, searchColumns, j, minValue, enteringColumn) ==
    IF j >= searchColumns THEN enteringColumn
    ELSE IF Lt(objectiveRow[j + 1], minValue)
         THEN EnteringScan(objectiveRow, searchColumns, j + 1, objectiveRow[j + 1], j)
         ELSE EnteringScan(objectiveRow, searchColumns, j + 1, minValue, enteringColumn)

\* variant: the scan stops one column early
findEnteringVariable_SkipsLastColumn(tableau) ==
    EnteringScan(tableau.objectiveRow, Len(tableau.nonBasicVariables) - 1, 0, Zero, -1)

\* variant: the column with the largest positive objective entry enters
RECURSIVE EnteringScan_MostPositive(_, _, _, _, _)
EnteringScan_MostPositive(objectiveRow, searchColumns, j, maxValue, enteringColumn) ==
    IF j >= searchColumns THEN enteringColumn
    ELSE IF Lt(maxValue, objectiveRow[j + 1])
         THEN EnteringScan_MostPositive(objectiveRow, searchColumns, j + 1, objectiveRow[j + 1], j)
         ELSE EnteringScan_MostPositive(objectiveRow, searchColumns, j + 1, maxValue, enteringColumn)

findEnteringVariable_MostPositive(tableau) ==
    EnteringScan_MostPositive(tableau.objectiveRow, Len(tableau.nonBasicVariables), 0, Zero, -1)

findEnteringVariable(tableau) ==
    EnteringScan(tableau.objectiveRow, Len(tableau.nonBasicVariables), 0, Zero, -1)

\* the for loop of findLeavingVariable, from row i on; minRatio is
\* Number.POSITIVE_INFINITY as long as leavingRow is -1
RECURSIVE LeavingScan(_, _, _, _, _)
LeavingScan(tableau, enteringColumn, i, minRatio, leavingRow) ==
    IF i >= Len(tableau.rhsColumn) - 1 THEN leavingRow
    ELSE LET pivotElement == tableau.tableau[i + 1][enteringColumn + 1]
         IN  IF Lt(Zero, pivotElement)
             THEN LET ratio == Div(tableau.rhsColumn[i + 1], pivotElement)
                  IN  IF leavingRow = -1 \/ Lt(ratio, minRatio)
                      THEN LeavingScan(tableau, enteringColumn, i + 1, ratio, i)
                      ELSE LeavingScan(tableau, enteringColumn, i + 1, minRatio, leavingRow)
             ELSE LeavingScan(tableau, enteringColumn, i + 1, minRatio, leavingRow)

\* variant: the first row with a positive pivot element leaves, whatever its ratio
findLeavingVariable_FirstPositiveRow(tableau, enteringColumn) ==
    LET rows == {i \in 0..(Len(tableau.rhsColumn) - 2) :
                    Lt(Zero, tableau.tableau[i + 1][enteringColumn + 1])}
    IN  IF rows = {} THEN -1 ELSE CHOOSE i \in rows : \A k \in rows : i <= k

\* variant: rows with a zero right-hand side are not candidates
findLeavingVariable_SkipsZeroRhs(tableau, enteringColumn) ==
    LET rows == {i \in 0..(Len(tableau.rhsColumn) - 2) :
                    /\ Lt(Zero, tableau.tableau[i + 1][enteringColumn + 1])
                    /\ tableau.rhsColumn[i + 1] # Zero}
        ratio(i) == Div(tableau.rhsColumn[i + 1], tableau.tableau[i + 1][enteringColumn + 1])
    IN  IF rows = {} THEN -1
        ELSE CHOOSE i \in rows : \A k \in rows : Lt(ratio(i), ratio(k)) \/ (ratio(i) = ratio(k) /\ i <= k)

\* variant: on equal ratios the later row leaves (ratio <= minRatio)
findLeavingVariable_LastOnTies(tableau, enteringColumn) ==
    LET rows == {i \in 0..(Len(tableau.rhsColumn) - 2) :
                    Lt(Zero, tableau.tableau[i + 1][enteringColumn + 1])}
        ratio(i) == Div(tableau.rhsColumn[i + 1], tableau.tableau[i + 1][enteringColumn + 1])
    IN  IF rows = {} THEN -1
        ELSE CHOOSE i \in rows : \A k \in rows : Lt(ratio(i), ratio(k)) \/ (ratio(i) = ratio(k) /\ i >= k)

\* variant: the row with the largest ratio leaves (ratio > maxRatio)
findLeavingVariable_LargestRatio(tableau, enteringColumn) ==
    LET rows == {i \in 0..(Len(tableau.rhsColumn) - 2) :
                    Lt(Zero, tableau.tableau[i + 1][enteringColumn + 1])}
        ratio(i) == Div(tableau.rhsColumn[i + 1], tableau.tableau[i + 1][enteringColumn + 1])
    IN  IF rows = {} THEN -1
        ELSE CHOOSE i \in rows : \A k \in rows : Lt(ratio(k), ratio(i)) \/ (ratio(i) = ratio(k) /\ i <= k)

findLeavingVariable(tableau, enteringColumn) ==
    LeavingScan(tableau, enteringColumn, 0, Zero, -1)

\* variant: the elimination loop stops before the objective row
pivotOperation_SkipsObjectiveRow(tableau, pivotRow, pivotColumn) ==
    LET old == tableau.tableau
        pivotElement == old[pivotRow + 1][pivotColumn + 1]
        normalized == Spread([j \in 1..Len(old[pivotRow + 1]) |-> Div(old[pivotRow + 1][j], pivotElement)])
        newTableau == Spread([i \in 1..Len(old) |->
                          IF i = pivotRow + 1 THEN normalized
                          ELSE IF i = Len(old) THEN old[i]
                          ELSE LET multiplier == old[i][pivotColumn + 1]
                               IN  Spread([j \in 1..Len(old[i]) |-> Sub(old[i][j], Mul(multiplier, normalized[j]))])])
    IN  [tableau |-> newTableau,
         basicVariables |-> [tableau.basicVariables EXCEPT ![pivotRow + 1] = tableau.nonBasicVariables[pivotColumn + 1]],
         nonBasicVariables |-> [tableau.nonBasicVariables EXCEPT ![pivotColumn + 1] = tableau.basicVariables[pivotRow + 1]],
         objectiveRow |-> Last(newTableau),
         rhsColumn |-> [i \in 1..Len(newTableau) |-> Last(newTableau[i])],
         iteration |-> tableau.iteration + 1,
         isOptimal |-> FALSE,
         isUnbounded |-> FALSE,
         pivotRow |-> pivotRow,
         pivotColumn |-> pivotColumn,
         enteringVariable |-> UndefinedName,
         leavingVariable |-> UndefinedName]

pivotOperation(tableau, pivotRow, pivotColumn) ==
    LET old == tableau.tableau
        pivotElement == old[pivotRow + 1][pivotColumn + 1]
        normalized == Spread([j \in 1..Len(old[pivotRow + 1]) |-> Div(old[pivotRow + 1][j], pivotElement)])
        newTableau == Spread([i \in 1..Len(old) |->
                          IF i = pivotRow + 1 THEN normalized
                          ELSE LET multiplier == old[i][pivotColumn + 1]
                               IN  Spread([j \in 1..Len(old[i]) |-> Sub(old[i][j], Mul(multiplier, normalized[j]))])])
        newBasicVariables == [tableau.basicVariables EXCEPT ![pivotRow + 1] = tableau.nonBasicVariables[pivotColumn + 1]]
        newNonBasicVariables == [tableau.nonBasicVariables EXCEPT ![pivotColumn + 1] = tableau.basicVariables[pivotRow + 1]]
    IN  [tableau |-> newTableau,
         basicVariables |-> newBasicVariables,
         nonBasicVariables |-> newNonBasicVariables,
         objectiveRow |-> Last(newTableau),
         rhsColumn |-> [i \in 1..Len(newTableau) |-> Last(newTableau[i])],
         iteration |-> tableau.iteration + 1,
         isOptimal |-> FALSE,
         isUnbounded |-> FALSE,
         pivotRow |-> pivotRow,
         pivotColumn |-> pivotColumn,
         enteringVariable |-> UndefinedName,
         leavingVariable |-> UndefinedName]

isOptimal(tableau) ==
    \A j \in 0..(Len(tableau.objectiveRow) - 2) : ~LtNegTol10(tableau.objectiveRow[j + 1])

\* the set of names in a list (Array.prototype.includes)
Includes(list, v) == \E k \in 1..Len(list) : list[k] = v

\* variant: the objective cell is returned as it is, also for a minimization
extractSolution_KeepsSign(tableau, originalVariables, isMaximization) ==
    LET names == {originalVariables[k] : k \in 1..Len(originalVariables)}
        rows(v) == {i \in 1..Len(tableau.basicVariables) : tableau.basicVariables[i] = v}
        lastRow(v) == CHOOSE i \in rows(v) : \A k \in rows(v) : k <= i
        solution == [v \in names |-> IF rows(v) = {} THEN Zero ELSE tableau.rhsColumn[lastRow(v)]]
    IN  [optimalValue |-> Last(tableau.rhsColumn),
         optimalSolution |-> solution]

extractSolution(tableau, originalVariables, isMaximization) ==
    LET names == {originalVariables[k] : k \in 1..Len(originalVariables)}
        rows(v) == {i \in 1..Len(tableau.basicVariables) : tableau.basicVariables[i] = v}
        \* forEach assigns in row order, so the last row naming v wins
        lastRow(v) == CHOOSE i \in rows(v) : \A k \in rows(v) : k <= i
        solution == [v \in names |-> IF rows(v) = {} THEN Zero ELSE tableau.rhsColumn[lastRow(v)]]
        raw == Last(tableau.rhsColumn)
    IN  [optimalValue |-> IF isMaximization THEN raw ELSE Neg(raw),
         optimalSolution |-> solution]

(***************************************************************************)
(* SimplexSolver.solve: the locals of a call are the record                *)
(* [iterations, steps, iterationCount].  currentTableau always refers to   *)
(* the last element of iterations (it is pushed when created and replaced  *)
(* only by the tableau pushed next), so an assignment through              *)
(* currentTableau is an update of that element.  A step's tableau field is *)
(* the 1-based position in iterations of the object it refers to, 0 when   *)
(* the step has none.                                                      *)
(***************************************************************************)
maxIterations == 50

Step(iteration, action, tableau) ==
    [iteration |-> iteration, action |-> action, tableau |-> tableau]

\* lines 73-104: the part of solve before the while loop
SolveEntry(objectiveCoefficients, constraintMatrix, rhsVector, isMaximization, variables) ==
    LET sf == convertToStandardForm(objectiveCoefficients, constraintMatrix, rhsVector,
                                    isMaximization, variables)
        currentTableau == createInitialTableau(sf)
    IN  [iterations |-> <<currentTableau>>,
         steps |-> <<Step(0, "convert_standard", 0), Step(0, "initial_tableau", 1)>>,
         iterationCount |-> 0]

\* variant: the while loop without the iteration cap
LoopCondition_NoCap(fr) ==
    /\ ~Last(fr.iterations).isOptimal
    /\ ~Last(fr.iterations).isUnbounded

\* line 108: the condition of the while loop
LoopCondition(fr) ==
    /\ ~Last(fr.iterations).isOptimal
    /\ ~Last(fr.iterations).isUnbounded
    /\ fr.iterationCount < maxIterations

\* lines 109-175: one pass through the body of the while loop
LoopBody(fr) ==
    LET iterationCount == fr.iterationCount + 1
        idx == Len(fr.iterations)
        cur == fr.iterations[idx]
        enteringColumn == findEnteringVariable(cur)
    IN  IF enteringColumn = -1
        THEN [iterations |-> [fr.iterations EXCEPT ![idx].isOptimal = TRUE],
              steps |-> fr.steps,
              iterationCount |-> iterationCount]
        ELSE
        LET cur1 == [cur EXCEPT !.enteringVariable = cur.nonBasicVariables[enteringColumn + 1],
                                !.pivotColumn = enteringColumn]
            steps1 == Append(fr.steps, Step(iterationCount, "entering_variable", 0))
            leavingRow == findLeavingVariable(cur1, enteringColumn)
        IN  IF leavingRow = -1
            THEN [iterations |-> [fr.iterations EXCEPT ![idx] = [cur1 EXCEPT !.isUnbounded = TRUE]],
                  steps |-> Append(steps1, Step(iterationCount, "unbounded", 0)),
                  iterationCount |-> iterationCount]
            ELSE
            LET cur2 == [cur1 EXCEPT !.leavingVariable = cur1.basicVariables[leavingRow + 1],
                                     !.pivotRow = leavingRow]
                steps2 == Append(steps1, Step(iterationCount, "leaving_variable", 0))
                pivoted == [pivotOperation(cur2, leavingRow, enteringColumn)
                               EXCEPT !.iteration = iterationCount]
                steps3 == Append(steps2, Step(iterationCount, "pivot", idx + 1))
                optimal == isOptimal(pivoted)
            IN  [iterations |-> Append([fr.iterations EXCEPT ![idx] = cur2],
                                       [pivoted EXCEPT !.isOptimal = optimal]),
                 steps |-> IF optimal
                           THEN Append(steps3, Step(iterationCount, "optimal", 0))
                           ELSE steps3,
                 iterationCount |-> iterationCount]

\* variant: the returned isOptimal is recomputed from the objective row
SolveResult_RecomputesOptimality(fr, originalVariables, isMaximization) ==
    LET currentTableau == Last(fr.iterations)
        solution == extractSolution(currentTableau, originalVariables, isMaximization)
    IN  [isOptimal |-> isOptimal(currentTableau),
         isUnbounded |-> currentTableau.isUnbounded,
         isFeasible |-> TRUE,
         optimalValue |-> solution.optimalValue,
         optimalSolution |-> solution.optimalSolution,
         iterations |-> fr.iterations,
         steps |-> fr.steps]

\* lines 178-191: extraction and the returned SimplexSolution
SolveResult(fr, originalVariables, isMaximization) ==
    LET currentTableau == Last(fr.iterations)
        solution == extractSolution(currentTableau, originalVariables, isMaximization)
    IN  [isOptimal |-> currentTableau.isOptimal,
         isUnbounded |-> currentTableau.isUnbounded,
         isFeasible |-> TRUE,
         optimalValue |-> solution.optimalValue,
         optimalSolution |-> solution.optimalSolution,
         iterations |-> fr.iterations,
         steps |-> fr.steps]

\* the while loop run to its exit
RECURSIVE RunLoop(_)
RunLoop(fr) == IF LoopCondition(fr) THEN RunLoop(LoopBody(fr)) ELSE fr

\* solve as a function of its arguments
solve(objectiveCoefficients, constraintMatrix, rhsVector, isMaximization, variables) ==
    SolveResult(RunLoop(SolveEntry(objectiveCoefficients, constraintMatrix, rhsVector,
                                   isMaximization, variables)),
                variables, isMaximization)

(***************************************************************************)
(* The second copy of the solver, class SimplexSolver of                   *)
(* src/unnamed/part_002, translated from its own text.                     *)
(***************************************************************************)
Part002_maxIterations == 50

Part002_convertToStandardForm(objectiveCoefficients, constraintMatrix, rhsVector, isMaximization, variables) ==
    LET objCoeffs == IF isMaximization
                     THEN objectiveCoefficients
                     ELSE [k \in 1..Len(objectiveCoefficients) |-> Neg(objectiveCoefficients[k])]
        numConstraints == Len(constraintMatrix)
        numOriginalVars == Len(objectiveCoefficients)
        extendedMatrix == [i \in 1..numConstraints |->
                              constraintMatrix[i] \o [j \in 1..numConstraints |-> IF i = j THEN One ELSE Zero]]
        extendedObjCoeffs == objCoeffs \o [j \in 1..numConstraints |-> Zero]
        slackVariables == [i \in 1..numConstraints |-> SlackName(i - 1)]
        allVariables == variables \o slackVariables
    IN  [objectiveCoefficients |-> extendedObjCoeffs,
         constraintMatrix |-> extendedMatrix,
         rhsVector |-> rhsVector,
         variables |-> allVariables,
         originalVariables |-> variables,
         slackVariables |-> slackVariables,
         numOriginalVars |-> numOriginalVars,
         numConstraints |-> numConstraints]

Part002_createInitialTableau(standardForm) ==
    LET tableau == [i \in 1..Len(standardForm.constraintMatrix) |->
                       Append(standardForm.constraintMatrix[i], standardForm.rhsVector[i])]
                   \o <<Append([k \in 1..Len(standardForm.objectiveCoefficients) |->
                                   Neg(standardForm.objectiveCoefficients[k])], Zero)>>
    IN  [tableau |-> tableau,
         basicVariables |-> Spread(standardForm.slackVariables),
         nonBasicVariables |-> SubSeq(standardForm.variables, 1, standardForm.numOriginalVars),
         objectiveRow |-> Last(tableau),
         rhsColumn |-> [i \in 1..Len(tableau) |-> Last(tableau[i])],
         iteration |-> 0,
         isOptimal |-> FALSE,
         isUnbounded |-> FALSE,
         pivotRow |-> UndefinedIndex,
         pivotColumn |-> UndefinedIndex,
         enteringVariable |-> UndefinedName,
         leavingVariable |-> UndefinedName]

RECURSIVE Part002_EnteringScan(_, _, _, _, _)
Part002_EnteringScan(objectiveRow, searchColumns, j, minValue, enteringColumn) ==
    IF j >= searchColumns THEN enteringColumn
    ELSE IF Lt(objectiveRow[j + 1], minValue)
         THEN Part002_EnteringScan(objectiveRow, searchColumns, j + 1, objectiveRow[j + 1], j)
         ELSE Part002_EnteringScan(objectiveRow, searchColumns, j + 1, minValue, enteringColumn)

Part002_findEnteringVariable(tableau) ==
    Part002_EnteringScan(tableau.objectiveRow, Len(tableau.nonBasicVariables), 0, Zero, -1)

RECURSIVE Part002_LeavingScan(_, _, _, _, _)
Part002_LeavingScan(tableau, enteringColumn, i, minRatio, leavingRow) ==
    IF i >= Len(tableau.rhsColumn) - 1 THEN leavingRow
    ELSE LET pivotElement == tableau.tableau[i + 1][enteringColumn + 1]
         IN  IF Lt(Zero, pivotElement)
             THEN LET ratio == Div(tableau.rhsColumn[i + 1], pivotElement)
                  IN  IF leavingRow = -1 \/ Lt(ratio, minRatio)
                      THEN Part002_LeavingScan(tableau, enteringColumn, i + 1, ratio, i)
                      ELSE Part002_LeavingScan(tableau, enteringColumn, i + 1, minRatio, leavingRow)
             ELSE Part002_LeavingScan(tableau, enteringColumn, i + 1, minRatio, leavingRow)

Part002_findLeavingVariable(tableau, enteringColumn) ==
    Part002_LeavingScan(tableau, enteringColumn, 0, Zero, -1)

Part002_pivotOperation(tableau, pivotRow, pivotColumn) ==
    LET old == tableau.tableau
        pivotElement == old[pivotRow + 1][pivotColumn + 1]
        normalized == Spread([j \in 1..Len(old[pivotRow + 1]) |-> Div(old[pivotRow + 1][j], pivotElement)])
        newTableau == Spread([i \in 1..Len(old) |->
                          IF i = pivotRow + 1 THEN normalized
                          ELSE LET multiplier == old[i][pivotColumn + 1]
                               IN  Spread([j \in 1..Len(old[i]) |-> Sub(old[i][j], Mul(multiplier, normalized[j]))])])
        newBasicVariables == [tableau.basicVariables EXCEPT ![pivotRow + 1] = tableau.nonBasicVariables[pivotColumn + 1]]
        newNonBasicVariables == [tableau.nonBasicVariables EXCEPT ![pivotColumn + 1] = tableau.basicVariables[pivotRow + 1]]
    IN  [tableau |-> newTableau,
         basicVariables |-> newBasicVariables,
         nonBasicVariables |-> newNonBasicVariables,
         objectiveRow |-> Last(newTableau),
         rhsColumn |-> [i \in 1..Len(newTableau) |-> Last(newTableau[i])],
         iteration |-> tableau.iteration + 1,
         isOptimal |-> FALSE,
         isUnbounded |-> FALSE,
         pivotRow |-> pivotRow,
         pivotColumn |-> pivotColumn,
         enteringVariable |-> UndefinedName,
         leavingVariable |-> UndefinedName]

Part002_isOptimal(tableau) ==
    \A j \in 0..(Len(tableau.objectiveRow) - 2) : ~LtNegTol10(tableau.objectiveRow[j + 1])

Part002_extractSolution(tableau, originalVariables, isMaximization) ==
    LET names == {originalVariables[k] : k \in 1..Len(originalVariables)}
        rows(v) == {i \in 1..Len(tableau.basicVariables) : tableau.basicVariables[i] = v}
        \* forEach assigns in row order, so the last row naming v wins
        lastRow(v) == CHOOSE i \in rows(v) : \A k \in rows(v) : k <= i
        solution == [v \in names |-> IF rows(v) = {} THEN Zero ELSE tableau.rhsColumn[lastRow(v)]]
        raw == Last(tableau.rhsColumn)
    IN  [optimalValue |-> IF isMaximization THEN raw ELSE Neg(raw),
         optimalSolution |-> solution]

Part002_SolveEntry(objectiveCoefficients, constraintMatrix, rhsVector, isMaximization, variables) ==
    LET sf == Part002_convertToStandardForm(objectiveCoefficients, constraintMatrix, rhsVector,
                                    isMaximization, variables)
        currentTableau == Part002_createInitialTableau(sf)
    IN  [iterations |-> <<currentTableau>>,
         steps |-> <<Step(0, "convert_standard", 0), Step(0, "initial_tableau", 1)>>,
         iterationCount |-> 0]

Part002_LoopCondition(fr) ==
    /\ ~Last(fr.iterations).isOptimal
    /\ ~Last(fr.iterations).isUnbounded
    /\ fr.iterationCount < Part002_maxIterations

Part002_LoopBody(fr) ==
    LET iterationCount == fr.iterationCount + 1
        idx == Len(fr.iterations)
        cur == fr.iterations[idx]
        enteringColumn == Part002_findEnteringVariable(cur)
    IN  IF enteringColumn = -1
        THEN [iterations |-> [fr.iterations EXCEPT ![idx].isOptimal = TRUE],
              steps |-> fr.steps,
              iterationCount |-> iterationCount]
        ELSE
        LET cur1 == [cur EXCEPT !.enteringVariable = cur.nonBasicVariables[enteringColumn + 1],
                                !.pivotColumn = enteringColumn]
            steps1 == Append(fr.steps, Step(iterationCount, "entering_variable", 0))
            leavingRow == Part002_findLeavingVariable(cur1, enteringColumn)
        IN  IF leavingRow = -1
            THEN [iterations |-> [fr.iterations EXCEPT ![idx] = [cur1 EXCEPT !.isUnbounded = TRUE]],
                  steps |-> Append(steps1, Step(iterationCount, "unbounded", 0)),
                  iterationCount |-> iterationCount]
            ELSE
            LET cur2 == [cur1 EXCEPT !.leavingVariable = cur1.basicVariables[leavingRow + 1],
                                     !.pivotRow = leavingRow]
                steps2 == Append(steps1, Step(iterationCount, "leaving_variable", 0))
                pivoted == [Part002_pivotOperation(cur2, leavingRow, enteringColumn)
                               EXCEPT !.iteration = iterationCount]
                steps3 == Append(steps2, Step(iterationCount, "pivot", idx + 1))
                optimal == Part002_isOptimal(pivoted)
            IN  [iterations |-> Append([fr.iterations EXCEPT ![idx] = cur2],
                                       [pivoted EXCEPT !.isOptimal = optimal]),
                 steps |-> IF optimal
                           THEN Append(steps3, Step(iterationCount, "optimal", 0))
                           ELSE steps3,
                 iterationCount |-> iterationCount]

Part002_SolveResult(fr, originalVariables, isMaximization) ==
    LET currentTableau == Last(fr.iterations)
        solution == Part002_extractSolution(currentTableau, originalVariables, isMaximization)
    IN  [isOptimal |-> currentTableau.isOptimal,
         isUnbounded |-> currentTableau.isUnbounded,
         isFeasible |-> TRUE,
         optimalValue |-> solution.optimalValue,
         optimalSolution |-> solution.optimalSolution,
         iterations |-> fr.iterations,
         steps |-> fr.steps]

RECURSIVE Part002_RunLoop(_)
Part002_RunLoop(fr) == IF Part002_LoopCondition(fr) THEN Part002_RunLoop(Part002_LoopBody(fr)) ELSE fr

Part002_solve(objectiveCoefficients, constraintMatrix, rhsVector, isMaximization, variables) ==
    Part002_SolveResult(Part002_RunLoop(Part002_SolveEntry(objectiveCoefficients, constraintMatrix, rhsVector,
                                   isMaximization, variables)),
                variables, isMaximization)

(***************************************************************************)
(* performSensitivityAnalysis                                              *)
(***************************************************************************)
\* variant: the labels are read from the last tableau instead of the first
performSensitivityAnalysis_LabelsFromFinalTableau(solution) ==
    LET finalTableau == Last(solution.iterations)
        initialTableau == solution.iterations[1]
        numOriginalVars == Len(initialTableau.nonBasicVariables)
        numConstraints == Len(initialTableau.basicVariables)
    IN  [shadowPrices |-> [i \in 1..numConstraints |->
                              [constraint |-> finalTableau.basicVariables[i],
                               price |-> Neg(finalTableau.objectiveRow[numOriginalVars + i])]],
         reducedCosts |-> [i \in 1..numOriginalVars |->
                              [variable |-> finalTableau.nonBasicVariables[i],
                               cost |-> finalTableau.objectiveRow[i]]]]

performSensitivityAnalysis(solution) ==
    LET finalTableau == Last(solution.iterations)
        initialTableau == solution.iterations[1]
        numOriginalVars == Len(initialTableau.nonBasicVariables)
        numConstraints == Len(initialTableau.basicVariables)
    IN  [shadowPrices |-> [i \in 1..numConstraints |->
                              [constraint |-> IF initialTableau.basicVariables[i] = ""
                                              THEN SlackName(i - 1)
                                              ELSE initialTableau.basicVariables[i],
                               price |-> Neg(finalTableau.objectiveRow[numOriginalVars + i])]],
         reducedCosts |-> [i \in 1..numOriginalVars |->
                              [variable |-> initialTableau.nonBasicVariables[i],
                               cost |-> finalTableau.objectiveRow[i]]]]

(***************************************************************************)
(* The graphical method: computeGraphData, intersection, dedupe.           *)
(* A point is a record [x, y]; a nullable point is the empty sequence or a *)
(* one-element sequence.  The polygon ordering (sortPolygon) and the plot  *)
(* bounds only rearrange and scale the feasible points and are left out.   *)
(***************************************************************************)
Point(x, y) == [x |-> x, y |-> y]

intersection(c1, c2) ==
    LET a1 == c1.coefficients[1]
        b1 == c1.coefficients[2]
        a2 == c2.coefficients[1]
        b2 == c2.coefficients[2]
        det == Sub(Mul(a1, b2), Mul(a2, b1))
    IN  IF AbsLtTol8(det) THEN <<>>
        ELSE <<Point(Div(Sub(Mul(c1.rhs, b2), Mul(c2.rhs, b1)), det),
                     Div(Sub(Mul(a1, c2.rhs), Mul(a2, c1.rhs)), det))>>

\* the forEach that pushes the axis intercepts, from constraint k on
RECURSIVE InterceptCandidates(_, _)
InterceptCandidates(constraints, k) ==
    IF k > Len(constraints) THEN <<>>
    ELSE LET a == constraints[k].coefficients[1]
             b == constraints[k].coefficients[2]
             rhs == constraints[k].rhs
         IN  (IF a # Zero THEN <<Point(Div(rhs, a), Zero)>> ELSE <<>>)
             \o (IF b # Zero THEN <<Point(Zero, Div(rhs, b))>> ELSE <<>>)
             \o InterceptCandidates(constraints, k + 1)

\* the nested for loops over pairs i < j, from the pair (i, j) on (1-based)
RECURSIVE IntersectionCandidates(_, _, _)
IntersectionCandidates(constraints, i, j) ==
    IF i > Len(constraints) THEN <<>>
    ELSE IF j > Len(constraints) THEN IntersectionCandidates(constraints, i + 1, i + 2)
    ELSE intersection(constraints[i], constraints[j])
         \o IntersectionCandidates(constraints, i, j + 1)

Candidates(constraints) ==
    <<Point(Zero, Zero)>> \o InterceptCandidates(constraints, 1)
                          \o IntersectionCandidates(constraints, 1, 2)

\* variant: the comparisons are exact, without the 1e-8 allowance
SatisfiesConstraint_NoTolerance(c, p) ==
    LET lhs == Add(Mul(c.coefficients[1], p.x), Mul(c.coefficients[2], p.y))
    IN  IF c.operator = "<=" THEN Le(lhs, c.rhs)
        ELSE IF c.operator = ">=" THEN Le(c.rhs, lhs)
        ELSE lhs = c.rhs

\* the predicate given to candidates.filter
SatisfiesConstraint(c, p) ==
    LET lhs == Add(Mul(c.coefficients[1], p.x), Mul(c.coefficients[2], p.y))
    IN  IF c.operator = "<=" THEN LeTol8(Sub(lhs, c.rhs))
        ELSE IF c.operator = ">=" THEN LeTol8(Sub(c.rhs, lhs))
        ELSE LeTol8(AbsQ(Sub(lhs, c.rhs)))

IsFeasiblePoint(constraints, p) ==
    /\ \A k \in 1..Len(constraints) : SatisfiesConstraint(constraints[k], p)
    /\ Le(Zero, p.x)
    /\ Le(Zero, p.y)

RECURSIVE DedupeFrom(_, _, _)
DedupeFrom(points, k, seen) ==
    IF k > Len(points) THEN seen
    ELSE IF \E q \in 1..Len(seen) : /\ AbsLtTol6(Sub(seen[q].x, points[k].x))
                                    /\ AbsLtTol6(Sub(seen[q].y, points[k].y))
         THEN DedupeFrom(points, k + 1, seen)
         ELSE DedupeFrom(points, k + 1, Append(seen, points[k]))

dedupe(points) == DedupeFrom(points, 1, <<>>)

\* variant: a point of equal value replaces the incumbent (>= and <=)
RECURSIVE OptimumScan_LastOnTies(_, _, _, _, _, _, _)
OptimumScan_LastOnTies(feasiblePoints, objA, objB, isMax, k, optimalPoint, optimalValue) ==
    IF k > Len(feasiblePoints)
    THEN [optimalPoint |-> optimalPoint, optimalValue |-> optimalValue]
    ELSE LET p == feasiblePoints[k]
             value == Add(Mul(objA, p.x), Mul(objB, p.y))
         IN  IF optimalPoint = <<>>
             THEN OptimumScan_LastOnTies(feasiblePoints, objA, objB, isMax, k + 1, <<p>>, value)
             ELSE IF (IF isMax THEN Le(optimalValue, value) ELSE Le(value, optimalValue))
                  THEN OptimumScan_LastOnTies(feasiblePoints, objA, objB, isMax, k + 1, <<p>>, value)
                  ELSE OptimumScan_LastOnTies(feasiblePoints, objA, objB, isMax, k + 1, optimalPoint, optimalValue)

\* the forEach that keeps the best point, from feasible point k on
RECURSIVE OptimumScan(_, _, _, _, _, _, _)
OptimumScan(feasiblePoints, objA, objB, isMax, k, optimalPoint, optimalValue) ==
    IF k > Len(feasiblePoints)
    THEN [optimalPoint |-> optimalPoint, optimalValue |-> optimalValue]
    ELSE LET p == feasiblePoints[k]
             value == Add(Mul(objA, p.x), Mul(objB, p.y))
         IN  IF optimalPoint = <<>>
             THEN OptimumScan(feasiblePoints, objA, objB, isMax, k + 1, <<p>>, value)
             ELSE IF (IF isMax THEN Lt(optimalValue, value) ELSE Lt(value, optimalValue))
                  THEN OptimumScan(feasiblePoints, objA, objB, isMax, k + 1, <<p>>, value)
                  ELSE OptimumScan(feasiblePoints, objA, objB, isMax, k + 1, optimalPoint, optimalValue)

computeGraphData(problem) ==
    LET constraints == problem.constraints
        objA == problem.objectiveFunction.coefficients[1]
        objB == problem.objectiveFunction.coefficients[2]
        isMax == problem.type = "maximize"
        candidates == Candidates(constraints)
        Keep(p) == IsFeasiblePoint(constraints, p)
        feasiblePoints == dedupe(SelectSeq(candidates, Keep))
        best == OptimumScan(feasiblePoints, objA, objB, isMax, 1, <<>>, Zero)
    IN  [feasiblePoints |-> feasiblePoints,
         optimalPoint |-> best.optimalPoint,
         optimalValue |-> best.optimalValue]

\* lines 300-314: the card GraphicalMethod returns, after the useMemo of
\* lines 291-298 has run computeGraphData on the problem
GraphicalMethod(p) ==
    IF Len(p.variables) # 2 THEN "not_applicable" ELSE "graph"

(***************************************************************************)
(* Problems submitted to the component.  The operators "≤", "≥" and "="    *)
(* are written "<=", ">=" and "=".                                         *)
(***************************************************************************)
Nums(ints) == [k \in 1..Len(ints) |-> Q(ints[k])]

MakeProblem(type, c, rows, ops, rhs, names) ==
    [type |-> type,
     objectiveFunction |-> [coefficients |-> Nums(c), variables |-> names],
     constraints |-> [i \in 1..Len(rows) |->
                         [coefficients |-> Nums(rows[i]), operator |-> ops[i], rhs |-> Q(rhs[i])]],
     variables |-> names]

\* Bounds of the generated family: two variables, two "<=" constraints.
\* Coefficients range over -1..MaxCoef and -1..MaxObj, right-hand sides over
\* 0..MaxRhs.
MaxCoef == 1
MaxObj == 1
MaxRhs == 1

CoefValues == (-1)..MaxCoef
ObjValues == (-1)..MaxObj
RhsValues == 0..MaxRhs
Types == {"maximize", "minimize"}

GeneratedProblems ==
    {MakeProblem(t, c, <<r1, r2>>, <<"<=", "<=">>, b, <<"x1", "x2">>) :
        t \in Types, c \in ObjValues \X ObjValues,
        r1 \in CoefValues \X CoefValues, r2 \in CoefValues \X CoefValues,
        b \in RhsValues \X RhsValues}

\* src/examples/simplex-example.ts: maximize 3x1 + 5x2
Scenario1 ==
    MakeProblem("maximize", <<3, 5>>, <<<<1, 0>>, <<0, 2>>, <<3, 2>>>>,
                <<"<=", "<=", "<=">>, <<4, 12, 18>>, <<"x1", "x2">>)

\* the second mock text of OCRService: minimize 5x + 3y
Scenario2 ==
    MakeProblem("minimize", <<5, 3>>, <<<<2, 1>>, <<1, 2>>, <<1, 1>>>>,
                <<">=", ">=", "<=">>, <<10, 8, 12>>, <<"x", "y">>)

\* maximize x1 + x2 subject to x1 <= 5 only
Scenario3 ==
    MakeProblem("maximize", <<1, 1>>, <<<<1, 0>>>>, <<"<=">>, <<5>>, <<"x1", "x2">>)

\* the first and third mock texts of OCRService
Mock1 ==
    MakeProblem("maximize", <<3, 2>>, <<<<2, 1>>, <<1, 1>>, <<1, 0>>>>,
                <<"<=", "<=", "<=">>, <<100, 80, 40>>, <<"x1", "x2">>)

Mock3 ==
    MakeProblem("maximize", <<4, 3, 2>>, <<<<1, 2, 1>>, <<2, 1, 2>>, <<1, 1, 1>>>>,
                <<"<=", "<=", "<=">>, <<50, 60, 30>>, <<"x1", "x2", "x3">>)

\* a degenerate problem on which the pivots of solve repeat with period 6
CyclingProblem ==
    MakeProblem("maximize", <<10, -57, -9, -24, 0, 0>>,
                <<<<1, -11, -5, 18, 2, 0>>, <<0, 8, 4, -16, -2, 2>>>>,
                <<"<=", "<=">>, <<0, 0>>, <<"x1", "x2", "x3", "x4", "x5", "x6">>)

\* CyclingProblem with a seventh variable that no constraint mentions
CyclingUnboundedProblem ==
    MakeProblem("maximize", <<10, -57, -9, -24, 0, 0, 1>>,
                <<<<1, -11, -5, 18, 2, 0, 0>>, <<0, 8, 4, -16, -2, 2, 0>>>>,
                <<"<=", "<=">>, <<0, 0>>, <<"x1", "x2", "x3", "x4", "x5", "x6", "x7">>)

\* a problem on which a variable enters the basis, leaves it and enters again
ReentryProblem ==
    MakeProblem("maximize", <<1, 1, 0>>, <<<<-1, 1, 1>>, <<2, 1, -1>>>>,
                <<"<=", "<=">>, <<1, 0>>, <<"x1", "x2", "x3">>)

NamedProblems ==
    {Scenario1, Scenario2, Scenario3, Mock1, Mock3, CyclingProblem,
     CyclingUnboundedProblem, ReentryProblem}

Problems == GeneratedProblems \cup NamedProblems

\* The problems given to GraphicalMethod alone: two variables, two
\* constraints, each with any of the three operators.  The second
\* constraint is a x1 + x2 (operator) 1.
Operators == {"<=", ">=", "="}

GraphProblems ==
    {MakeProblem(t, c, <<r1, <<a2, 1>>>>, <<o1, o2>>, <<b1, 1>>, <<"x1", "x2">>) :
        t \in Types, c \in ObjValues \X ObjValues,
        r1 \in CoefValues \X CoefValues, a2 \in CoefValues,
        o1 \in Operators, o2 \in Operators,
        b1 \in RhsValues}

\* a problem whose data fall inside the tolerances of computeGraphData:
\* 0 >= 5e-9 holds only within 1e-8, and the intercept x1 = 5e-7 of
\* 2000000 x1 <= 1 is closer than 1e-6 to the origin
TolerantProblem ==
    [type |-> "maximize",
     objectiveFunction |-> [coefficients |-> <<One, One>>, variables |-> <<"x1", "x2">>],
     constraints |-> <<[coefficients |-> <<Zero, Zero>>, operator |-> ">=", rhs |-> <<1, 200000000>>],
                       [coefficients |-> <<Q(2000000), Zero>>, operator |-> "<=", rhs |-> One],
                       [coefficients |-> <<Zero, One>>, operator |-> "<=", rhs |-> One]>>,
     variables |-> <<"x1", "x2">>]

(***************************************************************************)
(* State                                                                   *)
(***************************************************************************)
VARIABLES
    instance,          \* SimplexSolver.instance has been created
    problem,           \* the problem prop of ProblemSolver
    activeMethod,      \* the tab shown: "simplex" or "graphical"
    graphData,         \* what GraphicalMethod has computed while mounted, else <<>>
    isSimplexSolving,  \* state of ProblemSolver
    frame,             \* <<locals of the running call of solve>>, else <<>>
    simplexSolution,   \* state of ProblemSolver: <<>> (null) or <<solution>>
    sensitivity,       \* what SimplexVisualizer has computed while shown, else <<>>
    firstProblem,      \* history: <<the problem of the first completed solve>>
    firstSolution,     \* history: <<the solution that solve returned>>
    intervening,       \* history: a different problem was solved after the first
    repeated           \* history: the first problem has been solved again since

vars == <<instance, problem, activeMethod, graphData, isSimplexSolving, frame,
          simplexSolution, sensitivity, firstProblem, firstSolution,
          intervening, repeated>>

history == <<firstProblem, firstSolution, intervening, repeated>>

\* the arguments solveSimplex hands to solve
ArgObjective(p) == p.objectiveFunction.coefficients
ArgMatrix(p) == [i \in 1..Len(p.constraints) |-> p.constraints[i].coefficients]
ArgRhs(p) == [i \in 1..Len(p.constraints) |-> p.constraints[i].rhs]
ArgIsMax(p) == p.type = "maximize"
ArgVariables(p) == p.variables

InitWith(problems) ==
    /\ instance = FALSE
    /\ problem \in problems
    /\ activeMethod = "simplex"
    /\ graphData = <<>>
    /\ isSimplexSolving = FALSE
    /\ frame = <<>>
    /\ simplexSolution = <<>>
    /\ sensitivity = <<>>
    /\ firstProblem = <<>>
    /\ firstSolution = <<>>
    /\ intervening = FALSE
    /\ repeated = FALSE

Init == InitWith(Problems)

\* variant: the iteration counter lives on the shared instance and is not
\* reset by the next call
SolveSimplex_SharedCounter ==
    /\ ~isSimplexSolving
    /\ simplexSolution = <<>>
    /\ activeMethod = "simplex"
    /\ isSimplexSolving' = TRUE
    /\ instance' = TRUE
    /\ frame' = <<[SolveEntry(ArgObjective(problem), ArgMatrix(problem), ArgRhs(problem),
                              ArgIsMax(problem), ArgVariables(problem))
                      EXCEPT !.iterationCount = IF instance THEN 1 ELSE 0]>>
    /\ UNCHANGED <<problem, activeMethod, graphData, simplexSolution, sensitivity,
                   history>>

\* the click on "Resolver con Simplex": solveSimplex up to the while loop of solve
SolveSimplex ==
    /\ ~isSimplexSolving
    /\ simplexSolution = <<>>
    /\ activeMethod = "simplex"
    /\ isSimplexSolving' = TRUE
    /\ instance' = TRUE
    /\ frame' = <<SolveEntry(ArgObjective(problem), ArgMatrix(problem), ArgRhs(problem),
                             ArgIsMax(problem), ArgVariables(problem))>>
    /\ UNCHANGED <<problem, activeMethod, graphData, simplexSolution, sensitivity,
                   history>>

\* one pass through the while loop of solve
Iterate ==
    /\ frame # <<>>
    /\ LoopCondition(frame[1])
    /\ frame' = <<LoopBody(frame[1])>>
    /\ UNCHANGED <<instance, problem, activeMethod, graphData, isSimplexSolving,
                   simplexSolution, sensitivity, history>>

\* variant: the sensitivity analysis negates the objective row of the final
\* tableau in place, inside the solution it was given
SolveReturn_AnalysisWritesSolution ==
    /\ frame # <<>>
    /\ ~LoopCondition(frame[1])
    /\ LET solution == SolveResult(frame[1], ArgVariables(problem), ArgIsMax(problem))
           last == Len(solution.iterations)
           written == [solution EXCEPT !.iterations[last].objectiveRow =
                          [k \in 1..Len(@) |-> Neg(@[k])]]
       IN  /\ simplexSolution' = <<written>>
           /\ sensitivity' = <<performSensitivityAnalysis(solution)>>
           /\ IF firstProblem = <<>>
              THEN /\ firstProblem' = <<problem>>
                   /\ firstSolution' = <<written>>
                   /\ UNCHANGED <<intervening, repeated>>
              ELSE /\ intervening' = (intervening \/ firstProblem # <<problem>>)
                   /\ repeated' = (repeated \/ firstProblem = <<problem>>)
                   /\ UNCHANGED <<firstProblem, firstSolution>>
    /\ isSimplexSolving' = FALSE
    /\ frame' = <<>>
    /\ UNCHANGED <<instance, problem, activeMethod, graphData>>

\* the loop has ended: solve returns, solveSimplex stores the solution and
\* SimplexVisualizer is rendered with it
SolveReturn ==
    /\ frame # <<>>
    /\ ~LoopCondition(frame[1])
    /\ LET solution == SolveResult(frame[1], ArgVariables(problem), ArgIsMax(problem))
       IN  /\ simplexSolution' = <<solution>>
           /\ sensitivity' = <<performSensitivityAnalysis(solution)>>
           /\ IF firstProblem = <<>>
              THEN /\ firstProblem' = <<problem>>
                   /\ firstSolution' = <<solution>>
                   /\ UNCHANGED <<intervening, repeated>>
              ELSE /\ intervening' = (intervening \/ firstProblem # <<problem>>)
                   /\ repeated' = (repeated \/ firstProblem = <<problem>>)
                   /\ UNCHANGED <<firstProblem, firstSolution>>
    /\ isSimplexSolving' = FALSE
    /\ frame' = <<>>
    /\ UNCHANGED <<instance, problem, activeMethod, graphData>>

backFromSimplex ==
    /\ simplexSolution # <<>>
    /\ simplexSolution' = <<>>
    /\ sensitivity' = <<>>
    /\ UNCHANGED <<instance, problem, activeMethod, graphData, isSimplexSolving, frame,
                   history>>

\* the tab is changed; GraphicalMethod is mounted on the graphical tab only
setActiveMethod(m) ==
    /\ ~isSimplexSolving
    /\ simplexSolution = <<>>
    /\ activeMethod # m
    /\ activeMethod' = m
    /\ graphData' = IF m = "graphical" THEN <<computeGraphData(problem)>> ELSE <<>>
    /\ UNCHANGED <<instance, problem, isSimplexSolving, frame, simplexSolution,
                   sensitivity, history>>

\* "Nuevo Problema": the component is given another problem
onReset(p) ==
    /\ ~isSimplexSolving
    /\ p # problem
    /\ problem' = p
    /\ activeMethod' = "simplex"
    /\ graphData' = <<>>
    /\ simplexSolution' = <<>>
    /\ sensitivity' = <<>>
    /\ UNCHANGED <<instance, isSimplexSolving, frame, history>>

\* the life of one ProblemSolver: the problem it was given stays
Next ==
    \/ SolveSimplex
    \/ Iterate
    \/ SolveReturn
    \/ backFromSimplex
    \/ \E m \in {"simplex", "graphical"} : setActiveMethod(m)

Spec == Init /\ [][Next]_vars

\* a session in which the user moves between the named problems
InitSession == InitWith(NamedProblems)

NextSession ==
    \/ Next
    \/ \E p \in NamedProblems : onReset(p)

SpecSession == InitSession /\ [][NextSession]_vars

\* solve is synchronous code: once called, its loop runs on and it returns.
\* Both steps of a running call are weakly fair.  For Iterate the fairness
\* condition is written with its enabling condition spelled out: a pass is
\* possible exactly when a call is running and the loop condition holds, and
\* it changes frame.
IterateEnabled == frame # <<>> /\ LoopCondition(frame[1])

Fairness ==
    /\ WF_vars(SolveReturn)
    /\ []<>(~IterateEnabled) \/ []<><<Iterate>>_vars

SpecSessionFair == SpecSession /\ Fairness

\* GraphicalMethod on its own: a ProblemSolver whose tabs are switched and
\* whose simplex button is never pressed
InitGraph == InitWith(GraphProblems \cup NamedProblems \cup {TolerantProblem})

NextGraph == \E m \in {"simplex", "graphical"} : setActiveMethod(m)

SpecGraph == InitGraph /\ [][NextGraph]_vars

\* one call of solve on its own: the click, the passes of the loop and the
\* return, with no tab change and no way back
NextSolve ==
    \/ SolveSimplex
    \/ Iterate
    \/ SolveReturn

SpecSolve == Init /\ [][NextSolve]_vars

(***************************************************************************)
(* Vocabulary of the properties                                            *)
(***************************************************************************)
Returned == simplexSolution # <<>>
Solution == simplexSolution[1]
FinalTableau == Last(Solution.iterations)

AllLessEqual(p) == \A i \in 1..Len(p.constraints) : p.constraints[i].operator = "<="
NonNegativeRhs(p) == \A i \in 1..Len(p.constraints) : Le(Zero, p.constraints[i].rhs)
UniqueNames(p) ==
    \A i, j \in 1..Len(p.variables) : p.variables[i] = p.variables[j] => i = j

\* sum over k <= n of coefficients[k] * values[names[k]]
RECURSIVE WeightedSum(_, _, _, _)
WeightedSum(coefficients, names, values, n) ==
    IF n = 0 THEN Zero
    ELSE Add(WeightedSum(coefficients, names, values, n - 1),
             Mul(coefficients[n], values[names[n]]))

ObjectiveAt(p, values) ==
    WeightedSum(p.objectiveFunction.coefficients, p.variables, values, Len(p.variables))

LhsAt(p, r, values) ==
    WeightedSum(p.constraints[r].coefficients, p.variables, values, Len(p.variables))

(***************************************************************************)
(* C1.  For a problem with only "<=" constraints, non-negative right-hand  *)
(* sides and unique variable names, a solution returned with isOptimal has *)
(* an optimalValue equal (within 1e-6) to the objective evaluated at       *)
(* optimalSolution, and optimalSolution satisfies every constraint         *)
(* (within 1e-6).                                                          *)
(***************************************************************************)
C1_OptimalIsConsistentAndFeasible ==
    (/\ Returned
     /\ AllLessEqual(problem) /\ NonNegativeRhs(problem) /\ UniqueNames(problem)
     /\ Solution.isOptimal)
    => /\ AbsLeTol6(Sub(ObjectiveAt(problem, Solution.optimalSolution), Solution.optimalValue))
       /\ \A r \in 1..Len(problem.constraints) :
              LeTol6(Sub(LhsAt(problem, r, Solution.optimalSolution), problem.constraints[r].rhs))

(***************************************************************************)
(* C2.  Whenever solve returns isOptimal = true, every entry of the final  *)
(* tableau's objective row except the right-hand-side cell is >= -1e-10,   *)
(* the slack columns included.                                             *)
(***************************************************************************)
C2_OptimalHasNoNegativeObjectiveEntry ==
    (Returned /\ Solution.isOptimal)
    => \A j \in 1..(Len(FinalTableau.objectiveRow) - 1) :
           ~LtNegTol10(FinalTableau.objectiveRow[j])

(***************************************************************************)
(* C3.  For a problem with two variables, the optimal point and value of   *)
(* computeGraphData and the optimalSolution and optimalValue that solve    *)
(* returns for the same problem agree within 1e-3 on both coordinates and  *)
(* on the objective value.                                                 *)
(***************************************************************************)
GraphAgreesWith(g, p, solution) ==
    /\ g.optimalPoint # <<>>
    /\ AbsLeTol3(Sub(g.optimalPoint[1].x, solution.optimalSolution[p.variables[1]]))
    /\ AbsLeTol3(Sub(g.optimalPoint[1].y, solution.optimalSolution[p.variables[2]]))
    /\ AbsLeTol3(Sub(g.optimalValue, solution.optimalValue))

C3_GraphicalAndSimplexAgree ==
    (Returned /\ Len(problem.variables) = 2)
    => GraphAgreesWith(computeGraphData(problem), problem, Solution)

(***************************************************************************)
(* C4.  When the objective to maximize has a positive coefficient on a     *)
(* variable whose coefficient is zero in every constraint, no tableau of   *)
(* the run and no result has isOptimal = true, and solve returns           *)
(* isUnbounded = true.                                                     *)
(* The last part fails when the pivots cycle: the run is then cut at the   *)
(* iteration cap and returns with both flags false.  C4_Amended states the *)
(* claim with that exception (and with the coefficient above the 1e-10     *)
(* tolerance of isOptimal).                                                *)
(***************************************************************************)
FreeVariable(p, k) == \A r \in 1..Len(p.constraints) : p.constraints[r].coefficients[k] = Zero

HasProfitableFreeVariable(p) ==
    /\ p.type = "maximize"
    /\ \E k \in 1..Len(p.variables) :
           Lt(Zero, p.objectiveFunction.coefficients[k]) /\ FreeVariable(p, k)

HasProfitableFreeVariableAboveTolerance(p) ==
    /\ p.type = "maximize"
    /\ \E k \in 1..Len(p.variables) :
           LtNegTol10(Neg(p.objectiveFunction.coefficients[k])) /\ FreeVariable(p, k)

NoTableauOptimal(tableaus) == \A i \in 1..Len(tableaus) : ~tableaus[i].isOptimal

StoppedAtCap(solution) ==
    /\ Len(solution.iterations) = maxIterations + 1
    /\ ~solution.isOptimal
    /\ ~solution.isUnbounded

C4_Original ==
    HasProfitableFreeVariable(problem)
    => /\ frame # <<>> => NoTableauOptimal(frame[1].iterations)
       /\ Returned => /\ NoTableauOptimal(Solution.iterations)
                      /\ ~Solution.isOptimal
                      /\ Solution.isUnbounded

C4_Amended ==
    HasProfitableFreeVariableAboveTolerance(problem)
    => /\ frame # <<>> => NoTableauOptimal(frame[1].iterations)
       /\ Returned => /\ NoTableauOptimal(Solution.iterations)
                      /\ ~Solution.isOptimal
                      /\ Solution.isUnbounded \/ StoppedAtCap(Solution)

\* a run on such a problem has pivoted and has been reported unbounded
C4_Witness ==
    /\ HasProfitableFreeVariableAboveTolerance(problem)
    /\ Returned
    /\ Solution.isUnbounded
    /\ Len(Solution.iterations) > 1

(***************************************************************************)
(* C5.  For Scenario2 (minimize 5x + 3y subject to 2x + y >= 10,           *)
(* x + 2y >= 8, x + y <= 12) submitted through solveSimplex, solve never   *)
(* returns a result flagged isOptimal and isFeasible whose point violates  *)
(* one of the ">=" constraints.                                            *)
(***************************************************************************)
ViolatesGreaterEqual(p, values) ==
    \E r \in 1..Len(p.constraints) :
        /\ p.constraints[r].operator = ">="
        /\ Lt(LhsAt(p, r, values), p.constraints[r].rhs)

C5_NoSilentWrongAnswer ==
    (problem = Scenario2 /\ Returned)
    => ~(/\ Solution.isOptimal
         /\ Solution.isFeasible
         /\ ViolatesGreaterEqual(problem, Solution.optimalSolution))

(***************************************************************************)
(* C6.  For Scenario1 (maximize 3x1 + 5x2 subject to x1 <= 4, 2x2 <= 12,   *)
(* 3x1 + 2x2 <= 18) solve returns isOptimal = true, isUnbounded = false,   *)
(* optimalSolution x1 = 2, x2 = 6 and optimalValue = 36, and               *)
(* computeGraphData returns optimalPoint (2, 6) with optimalValue 36.      *)
(***************************************************************************)
IsScenario1Optimum(solution) ==
    /\ solution.isOptimal
    /\ ~solution.isUnbounded
    /\ solution.optimalSolution["x1"] = Q(2)
    /\ solution.optimalSolution["x2"] = Q(6)
    /\ solution.optimalValue = Q(36)

C6_Scenario1 ==
    problem = Scenario1
    => /\ Returned => IsScenario1Optimum(Solution)
       /\ firstSolution # <<>> => IsScenario1Optimum(firstSolution[1])
       /\ graphData # <<>> => /\ graphData[1].optimalPoint = <<Point(Q(2), Q(6))>>
                              /\ graphData[1].optimalValue = Q(36)

\* Scenario1 has been solved, and is now shown by the graphical method
C6_Witness ==
    /\ problem = Scenario1
    /\ firstSolution # <<>>
    /\ Len(firstSolution[1].iterations) = 3
    /\ graphData # <<>>

(***************************************************************************)
(* C7.  Every call of solve terminates, even when the pivots cycle: it     *)
(* performs at most 50 pivots, and the iteration history, while the call   *)
(* runs and in the returned result, holds at most 51 tableaus.             *)
(***************************************************************************)
PivotCount(steps) == Cardinality({k \in 1..Len(steps) : steps[k].action = "pivot"})

WithinCap(iterations, steps) ==
    /\ PivotCount(steps) <= maxIterations
    /\ Len(iterations) <= maxIterations + 1

PivotsBounded ==
    /\ frame # <<>> => /\ frame[1].iterationCount <= maxIterations
                       /\ WithinCap(frame[1].iterations, frame[1].steps)
    /\ Returned => WithinCap(Solution.iterations, Solution.steps)

C7_SolveTerminatesWithinCap ==
    /\ []PivotsBounded
    /\ (frame # <<>>) ~> (frame = <<>> /\ Returned)

\* a run whose pivots cycle has returned after exactly 50 pivots
C7_Witness ==
    /\ Returned
    /\ problem = CyclingProblem
    /\ PivotCount(Solution.steps) = maxIterations
    /\ Len(Solution.iterations) = maxIterations + 1

(***************************************************************************)
(* C8.  solve returns isOptimal = false and isUnbounded = false exactly    *)
(* when it has performed 50 pivots and the tableau after the 50th pivot    *)
(* fails the optimality re-check; the result then carries the values of    *)
(* that last tableau; in every other run exactly one of the flags is true. *)
(***************************************************************************)
NoFlag(solution) == ~solution.isOptimal /\ ~solution.isUnbounded

CappedWithoutOptimum(solution) ==
    /\ PivotCount(solution.steps) = maxIterations
    /\ Len(solution.iterations) = maxIterations + 1
    /\ ~isOptimal(Last(solution.iterations))

CarriesLastTableau(solution, p) ==
    LET last == extractSolution(Last(solution.iterations), ArgVariables(p), ArgIsMax(p))
    IN  /\ solution.optimalValue = last.optimalValue
        /\ solution.optimalSolution = last.optimalSolution

C8_NoFlagExactlyAtCap ==
    Returned
    => /\ NoFlag(Solution) <=> CappedWithoutOptimum(Solution)
       /\ NoFlag(Solution) => CarriesLastTableau(Solution, problem)
       /\ ~NoFlag(Solution) => (Solution.isOptimal /\ ~Solution.isUnbounded)
                                \/ (~Solution.isOptimal /\ Solution.isUnbounded)

\* a run has been cut at the cap and has returned with neither flag
C8_Witness ==
    /\ Returned
    /\ NoFlag(Solution)
    /\ CappedWithoutOptimum(Solution)

(***************************************************************************)
(* C9.  Two calls of solve with equal arguments on the shared instance,    *)
(* whatever solves ran before or between them, return equal results: same  *)
(* number of tableaus, same sequence of (pivotRow, pivotColumn), same      *)
(* flags, same optimalValue and optimalSolution.                           *)
(***************************************************************************)
PivotSequence(solution) ==
    [k \in 1..Len(solution.iterations) |->
        <<solution.iterations[k].pivotRow, solution.iterations[k].pivotColumn>>]

EqualResults(a, b) ==
    /\ Len(a.iterations) = Len(b.iterations)
    /\ PivotSequence(a) = PivotSequence(b)
    /\ a.isOptimal = b.isOptimal
    /\ a.isUnbounded = b.isUnbounded
    /\ a.isFeasible = b.isFeasible
    /\ a.optimalValue = b.optimalValue
    /\ a.optimalSolution = b.optimalSolution
    /\ a.iterations = b.iterations
    /\ a.steps = b.steps

C9_RepeatedSolveGivesEqualResult ==
    (Returned /\ firstProblem = <<problem>>)
    => EqualResults(Solution, firstSolution[1])

\* the first problem has been solved again after a solve of another problem,
\* on the instance created by the first call
C9_Witness ==
    /\ Returned
    /\ instance
    /\ firstProblem = <<problem>>
    /\ repeated
    /\ intervening
    /\ Len(Solution.iterations) > 1

(***************************************************************************)
(* C10.  For a non-degenerate problem on which solve returns isOptimal,    *)
(* and any constraint i with shadow price p_i reported by                  *)
(* performSensitivityAnalysis: solving again with rhs[i] raised by a small *)
(* Epsilon that leaves the optimal basis unchanged (the same pivots, again *)
(* optimal) changes optimalValue by p_i * Epsilon.                         *)
(***************************************************************************)
Epsilon == <<1, 100>>

NonDegenerate(solution) ==
    LET final == Last(solution.iterations)
    IN  \A i \in 1..(Len(final.rhsColumn) - 1) : Lt(Zero, final.rhsColumn[i])

SolveWithRaisedRhs(p, i) ==
    solve(ArgObjective(p), ArgMatrix(p), [ArgRhs(p) EXCEPT ![i] = Add(@, Epsilon)],
          ArgIsMax(p), ArgVariables(p))

SameBasis(a, b) ==
    /\ a.isOptimal = b.isOptimal
    /\ PivotSequence(a) = PivotSequence(b)
    /\ Last(a.iterations).basicVariables = Last(b.iterations).basicVariables

C10_ShadowPriceRoundTrip ==
    (Returned /\ sensitivity # <<>> /\ Solution.isOptimal /\ NonDegenerate(Solution))
    => \A i \in 1..Len(problem.constraints) :
           LET again == SolveWithRaisedRhs(problem, i)
           IN  SameBasis(again, Solution)
               => Sub(again.optimalValue, Solution.optimalValue)
                      = Mul(sensitivity[1].shadowPrices[i].price, Epsilon)

(***************************************************************************)
(* C11.  performSensitivityAnalysis on a solution with m constraints and n *)
(* original variables returns m shadow prices and n reduced costs, in      *)
(* order: shadow price i is labelled with the initial tableau's            *)
(* basicVariables[i], which is s{i+1}, and equals the negative of the last *)
(* tableau's objectiveRow[n + i]; reduced cost i is labelled with the      *)
(* initial tableau's nonBasicVariables[i], the i-th declared variable, and *)
(* equals the last tableau's objectiveRow[i].                              *)
(***************************************************************************)
C11_SensitivityShape ==
    (Returned /\ sensitivity # <<>>)
    => LET m == Len(problem.constraints)
           n == Len(problem.variables)
           initial == Solution.iterations[1]
           result == sensitivity[1]
       IN  /\ Len(result.shadowPrices) = m
           /\ Len(result.reducedCosts) = n
           /\ \A i \in 0..(m - 1) :
                  /\ result.shadowPrices[i + 1].constraint = initial.basicVariables[i + 1]
                  /\ result.shadowPrices[i + 1].constraint = SlackName(i)
                  /\ result.shadowPrices[i + 1].price = Neg(FinalTableau.objectiveRow[n + i + 1])
           /\ \A i \in 0..(n - 1) :
                  /\ result.reducedCosts[i + 1].variable = initial.nonBasicVariables[i + 1]
                  /\ result.reducedCosts[i + 1].variable = problem.variables[i + 1]
                  /\ result.reducedCosts[i + 1].cost = FinalTableau.objectiveRow[i + 1]

\* the analysis has run on a solution whose last tableau names other basic
\* variables than the first, and has a non-zero shadow price
C11_Witness ==
    /\ Returned
    /\ sensitivity # <<>>
    /\ FinalTableau.basicVariables # Solution.iterations[1].basicVariables
    /\ \E i \in 1..Len(sensitivity[1].shadowPrices) :
           sensitivity[1].shadowPrices[i].price # Zero

(***************************************************************************)
(* C12.  Once a tableau has been appended to the iteration history, none   *)
(* of its fields (matrix, name lists, isOptimal/isUnbounded, pivotRow,     *)
(* pivotColumn, entering/leaving variable names) is changed by a later     *)
(* step of solve.                                                          *)
(***************************************************************************)
HistoryKept(before, after) ==
    /\ Len(before) <= Len(after)
    /\ \A k \in 1..Len(before) : after[k] = before[k]

C12_HistoryTableausImmutable ==
    [][(frame # <<>> /\ frame' # <<>>)
        => HistoryKept(frame[1].iterations, frame'[1].iterations)]_vars

(***************************************************************************)
(* C13.  In every tableau of the history, basicVariables has exactly one   *)
(* name per constraint row, and for each row r the column of the variable  *)
(* named basicVariables[r] (its position in the list original variables    *)
(* followed by s1..sm) holds 1 in row r and 0 in every other constraint    *)
(* row.                                                                    *)
(***************************************************************************)
ColumnNames(p) ==
    p.variables \o [i \in 1..Len(p.constraints) |-> SlackName(i - 1)]

\* the 1-based positions of a name in the column list
ColumnsOf(p, name) == {k \in 1..Len(ColumnNames(p)) : ColumnNames(p)[k] = name}

IsUnitColumn(tableau, m, k, r) ==
    \A i \in 1..m : tableau.tableau[i][k] = (IF i = r THEN One ELSE Zero)

BasisIsUnit(p, tableau) ==
    LET m == Len(p.constraints)
    IN  /\ Len(tableau.basicVariables) = m
        /\ \A r \in 1..m :
               /\ ColumnsOf(p, tableau.basicVariables[r]) # {}
               /\ \A k \in ColumnsOf(p, tableau.basicVariables[r]) :
                      IsUnitColumn(tableau, m, k, r)

AllBasesUnit(p, tableaus) == \A t \in 1..Len(tableaus) : BasisIsUnit(p, tableaus[t])

C13_BasicColumnsAreUnit ==
    UniqueNames(problem)
    => /\ frame # <<>> => AllBasesUnit(problem, frame[1].iterations)
       /\ Returned => AllBasesUnit(problem, Solution.iterations)

(***************************************************************************)
(* C14.  For a problem with "<=" constraints whose right-hand sides are    *)
(* all 0 and whose feasible region is only the origin, solve returns       *)
(* isOptimal = true and optimalValue = 0, and the run ends in one          *)
(* iteration: the first pass of the loop finds the tableau already         *)
(* optimal.                                                                *)
(* The last part fails when an objective coefficient is improving: the     *)
(* run then makes degenerate pivots before it stops.  C14_Amended states   *)
(* what holds.  The feasible region is decided for two variables, where    *)
(* the cone {x >= 0 : A x <= 0} is the origin unless it holds an axis      *)
(* direction or a direction along one of the constraint lines.             *)
(***************************************************************************)
AllRhsZero(p) == \A i \in 1..Len(p.constraints) : p.constraints[i].rhs = Zero

ConeDirections(p) ==
    {<<One, Zero>>, <<Zero, One>>}
    \cup {<<Neg(p.constraints[i].coefficients[2]), p.constraints[i].coefficients[1]>> :
             i \in 1..Len(p.constraints)}
    \cup {<<p.constraints[i].coefficients[2], Neg(p.constraints[i].coefficients[1])>> :
             i \in 1..Len(p.constraints)}

InCone(p, d) ==
    /\ Le(Zero, d[1]) /\ Le(Zero, d[2])
    /\ d # <<Zero, Zero>>
    /\ \A i \in 1..Len(p.constraints) :
           Le(Add(Mul(p.constraints[i].coefficients[1], d[1]),
                  Mul(p.constraints[i].coefficients[2], d[2])), Zero)

OnlyOriginFeasible(p) ==
    /\ Len(p.variables) = 2
    /\ AllLessEqual(p)
    /\ AllRhsZero(p)
    /\ \A d \in ConeDirections(p) : ~InCone(p, d)

\* an objective coefficient that the initial tableau shows as negative
HasImprovingCoefficient(p) ==
    \E k \in 1..Len(p.variables) :
        IF p.type = "maximize"
        THEN Lt(Zero, p.objectiveFunction.coefficients[k])
        ELSE Lt(p.objectiveFunction.coefficients[k], Zero)

AllZero(p, values) == \A k \in 1..Len(p.variables) : values[p.variables[k]] = Zero

DeclaredNames(p) == {p.variables[k] : k \in 1..Len(p.variables)}

RowsNaming(tableau, v) ==
    {r \in 1..Len(tableau.basicVariables) : tableau.basicVariables[r] = v}

C15_SolutionExtraction ==
    Returned
    => /\ DOMAIN Solution.optimalSolution = DeclaredNames(problem)
       /\ \A v \in DeclaredNames(problem) :
              /\ RowsNaming(FinalTableau, v) = {} => Solution.optimalSolution[v] = Zero
              /\ \A r \in RowsNaming(FinalTableau, v) :
                     Solution.optimalSolution[v] = FinalTableau.rhsColumn[r]
       /\ Solution.optimalValue =
              (IF problem.type = "minimize"
               THEN Neg(Last(FinalTableau.objectiveRow))
               ELSE Last(FinalTableau.objectiveRow))

\* a minimization has returned a non-zero value, with one declared variable
\* basic at a non-zero value and another named by no row
C15_Witness ==
    /\ Returned
    /\ problem.type = "minimize"
    /\ Solution.optimalValue # Zero
    /\ \E v \in DeclaredNames(problem) :
           /\ RowsNaming(FinalTableau, v) # {}
           /\ Solution.optimalSolution[v] # Zero
    /\ \E v \in DeclaredNames(problem) : RowsNaming(FinalTableau, v) = {}

(***************************************************************************)
(* C16.  Minimizing c is solved as maximizing -c: solve(c, A, b, minimize) *)
(* and solve(-c, A, b, maximize) produce the same tableaus, the same pivot *)
(* sequence, the same flags and the same optimalSolution, and their        *)
(* optimalValue fields are negatives of each other.                        *)
(***************************************************************************)
NegAll(coefficients) == [k \in 1..Len(coefficients) |-> Neg(coefficients[k])]

\* the call with the objective negated and the sense reversed
SolveMirrored(p) ==
    solve(NegAll(ArgObjective(p)), ArgMatrix(p), ArgRhs(p), ~ArgIsMax(p), ArgVariables(p))

\* equality of two sequences, element by element
SameSequence(a, b) == Len(a) = Len(b) /\ \A k \in 1..Len(a) : a[k] = b[k]

\* two tableaus carry the same value in every field
SameTableau(a, b) == DOMAIN a = DOMAIN b /\ \A f \in DOMAIN a : a[f] = b[f]

SameIterations(a, b) ==
    Len(a) = Len(b) /\ \A k \in 1..Len(a) : SameTableau(a[k], b[k])

MirrorsEachOther(a, b) ==
    /\ SameIterations(a.iterations, b.iterations)
    /\ SameSequence(PivotSequence(a), PivotSequence(b))
    /\ SameSequence(a.steps, b.steps)
    /\ a.isOptimal = b.isOptimal
    /\ a.isUnbounded = b.isUnbounded
    /\ a.optimalSolution = b.optimalSolution
    /\ a.optimalValue = Neg(b.optimalValue)

C16_MinimizeIsMaximizeNegated ==
    Returned => MirrorsEachOther(SolveMirrored(problem), Solution)

\* a minimization has been solved with a pivot and a non-zero value
C16_Witness ==
    /\ Returned
    /\ problem.type = "minimize"
    /\ Len(Solution.iterations) > 1
    /\ Solution.optimalValue # Zero
    /\ SolveMirrored(problem).optimalValue = Neg(Solution.optimalValue)

(***************************************************************************)
(* C17: for a problem whose number of decision variables is not exactly 2, *)
(* GraphicalMethod reports that the method is not applicable and does not  *)
(* run computeGraphData on that problem.  While the graphical tab is       *)
(* mounted, graphData holds what computeGraphData returned, if it ran.     *)
(***************************************************************************)
C17_NotApplicableWithoutComputing ==
    (activeMethod = "graphical" /\ Len(problem.variables) # 2)
        => /\ GraphicalMethod(problem) = "not_applicable"
           /\ graphData = <<>>

(***************************************************************************)
(* C18: solve leaves its arguments unchanged and performSensitivityAnalysis*)
(* leaves the SimplexSolution it is given unchanged.  The arguments are    *)
(* arrays of the problem (its objective coefficients, the coefficient rows *)
(* of its constraints, its variable names), so the problem is the same     *)
(* before and after every step of solve; the solution that is displayed is *)
(* the value solve returned, and stays that value while it is displayed.   *)
(***************************************************************************)
ArgumentsKept == (frame # <<>>) => problem' = problem

SolutionKept ==
    /\ (frame # <<>> /\ frame' = <<>>)
           => /\ simplexSolution' =
                     <<SolveResult(frame[1], ArgVariables(problem), ArgIsMax(problem))>>
              /\ sensitivity' = <<performSensitivityAnalysis(simplexSolution'[1])>>
    /\ (simplexSolution # <<>> /\ simplexSolution' # <<>>)
           => simplexSolution' = simplexSolution

C18_SolveAndAnalysisLeaveInputsUnchanged == [][ArgumentsKept /\ SolutionKept]_vars

\* a solution with a pivot and a non-zero shadow price is displayed
C18_Witness ==
    /\ Returned
    /\ Len(Solution.iterations) > 1
    /\ sensitivity # <<>>
    /\ \E i \in 1..Len(sensitivity[1].shadowPrices) :
           sensitivity[1].shadowPrices[i].price # Zero
    /\ simplexSolution[1] = solve(ArgObjective(problem), ArgMatrix(problem), ArgRhs(problem),
                                  ArgIsMax(problem), ArgVariables(problem))

(***************************************************************************)
(* C19: at every iteration the entering column is chosen among the columns *)
(* of the variables that are non-basic in the current tableau: the column  *)
(* with the most negative objective-row value, lowest column index on      *)
(* ties; the tableau is declared optimal only when no current non-basic    *)
(* column has a negative value; the recorded enteringVariable is the name  *)
(* of the variable that owns the chosen column.  The variable that is      *)
(* basic in a row is followed through the pivots: tableau k of a solution  *)
(* keeps the row and column of the pivot that was applied to it.           *)
(***************************************************************************)
RECURSIVE BasicColumnOfRow(_, _, _)
BasicColumnOfRow(iterations, k, r) ==
    IF k = 1 THEN Len(iterations[1].nonBasicVariables) + r
    ELSE IF iterations[k - 1].pivotRow = r THEN iterations[k - 1].pivotColumn
    ELSE BasicColumnOfRow(iterations, k - 1, r)

CurrentNonBasicColumns(iterations, k) ==
    LET n == Len(iterations[1].nonBasicVariables)
        m == Len(iterations[1].basicVariables)
    IN  (0..(n + m - 1)) \ {BasicColumnOfRow(iterations, k, r) : r \in 0..(m - 1)}

NegativeColumns(iterations, k) ==
    {j \in CurrentNonBasicColumns(iterations, k) : Lt(iterations[k].objectiveRow[j + 1], Zero)}

\* j is the most negative of the candidates, the lowest index on ties
IsDantzigChoice(iterations, k, j) ==
    /\ j \in NegativeColumns(iterations, k)
    /\ \A i \in NegativeColumns(iterations, k) :
           \/ Lt(iterations[k].objectiveRow[j + 1], iterations[k].objectiveRow[i + 1])
           \/ (iterations[k].objectiveRow[j + 1] = iterations[k].objectiveRow[i + 1] /\ j <= i)

EnteringRuleFollowed(p, solution) ==
    LET iterations == solution.iterations
    IN  \A k \in 1..Len(iterations) :
           /\ iterations[k].isOptimal => NegativeColumns(iterations, k) = {}
           /\ iterations[k].pivotColumn # UndefinedIndex /\ (k < Len(iterations) \/ iterations[k].isUnbounded)
                  => /\ IsDantzigChoice(iterations, k, iterations[k].pivotColumn)
                     /\ iterations[k].enteringVariable
                            = ColumnNames(p)[iterations[k].pivotColumn + 1]

C19_EnteringAmongCurrentNonBasic == Returned => EnteringRuleFollowed(problem, Solution)

(***************************************************************************)
(* C20: findLeavingVariable(T, c) returns the lowest-index constraint row  *)
(* r with T[r][c] > 0 that minimizes rhs[r] / T[r][c] over the constraint  *)
(* rows with a strictly positive entry in column c (the objective row is   *)
(* never a candidate), and returns -1 exactly when no constraint row has a *)
(* strictly positive entry in column c, in which case solve flags the      *)
(* tableau unbounded and performs no further pivot.  Checked on every      *)
(* tableau of every returned history, for every column, and on the row     *)
(* solve recorded for the column it chose.                                 *)
(***************************************************************************)
PositiveRows(T, c) ==
    {r \in 0..(Len(T.tableau) - 2) : Lt(Zero, T.tableau[r + 1][c + 1])}

Ratio(T, r, c) == Div(T.rhsColumn[r + 1], T.tableau[r + 1][c + 1])

IsMinRatioRow(T, c, r) ==
    /\ r \in PositiveRows(T, c)
    /\ \A q \in PositiveRows(T, c) :
           \/ Lt(Ratio(T, r, c), Ratio(T, q, c))
           \/ (Ratio(T, r, c) = Ratio(T, q, c) /\ r <= q)

LeavingRuleOf(T, c) ==
    LET r == findLeavingVariable(T, c)
    IN  /\ (r = -1) <=> (PositiveRows(T, c) = {})
        /\ r # -1 => IsMinRatioRow(T, c, r)

LeavingRuleFollowed(solution) ==
    LET iterations == solution.iterations
        last == Len(iterations)
    IN  /\ \A k \in 1..last : \A c \in 0..(Len(iterations[k].objectiveRow) - 2) :
               LeavingRuleOf(iterations[k], c)
        /\ \A k \in 1..(last - 1) :
               /\ ~iterations[k].isUnbounded
               /\ iterations[k].pivotRow
                      = findLeavingVariable(iterations[k], iterations[k].pivotColumn)
               /\ iterations[k].pivotRow # -1
        /\ iterations[last].isUnbounded
               => /\ iterations[last].pivotColumn = findEnteringVariable(iterations[last])
                  /\ findLeavingVariable(iterations[last], iterations[last].pivotColumn) = -1
                  /\ solution.isUnbounded
        \* the loop took a pass on the last tableau unless the cap cut it
        /\ (/\ PivotCount(solution.steps) < maxIterations
            /\ ~iterations[last].isOptimal
            /\ findEnteringVariable(iterations[last]) # -1
            /\ findLeavingVariable(iterations[last], findEnteringVariable(iterations[last])) = -1)
               => iterations[last].isUnbounded

C20_LeavingVariableRule == Returned => LeavingRuleFollowed(Solution)

\* a pivot was made in a row that tied with a later row for the least ratio
C20_Witness ==
    /\ Returned
    /\ \E k \in 1..(Len(Solution.iterations) - 1) :
           LET T == Solution.iterations[k]
           IN  \E q \in PositiveRows(T, T.pivotColumn) :
                  /\ q > T.pivotRow
                  /\ Ratio(T, q, T.pivotColumn) = Ratio(T, T.pivotRow, T.pivotColumn)

(***************************************************************************)
(* C21: pivotOperation(T, r, c) with T[r][c] > 0 returns a new tableau in  *)
(* which row r equals T's row r divided by T[r][c], every other row i (the *)
(* objective row included) equals T's row i minus T[i][c] times the new    *)
(* row r, so that column c is 1 in row r and 0 elsewhere; basicVariables[r]*)
(* and nonBasicVariables[c] have exchanged names and every other name      *)
(* keeps its position; the iteration counter is T.iteration + 1.  Checked  *)
(* on every tableau of every returned history, for every constraint row r  *)
(* and every column c that has a name in nonBasicVariables.                *)
(***************************************************************************)
IsPivotOf(T, r, c, N) ==
    LET rows == Len(T.tableau)
        width == Len(T.tableau[1])
    IN  /\ Len(N.tableau) = rows
        /\ \A i \in 1..rows : Len(N.tableau[i]) = width
        /\ \A j \in 1..width :
               N.tableau[r + 1][j] = Div(T.tableau[r + 1][j], T.tableau[r + 1][c + 1])
        /\ \A i \in (1..rows) \ {r + 1} : \A j \in 1..width :
               N.tableau[i][j]
                  = Sub(T.tableau[i][j], Mul(T.tableau[i][c + 1], N.tableau[r + 1][j]))
        /\ \A i \in 1..rows : N.tableau[i][c + 1] = (IF i = r + 1 THEN One ELSE Zero)
        /\ Len(N.basicVariables) = Len(T.basicVariables)
        /\ Len(N.nonBasicVariables) = Len(T.nonBasicVariables)
        /\ N.basicVariables[r + 1] = T.nonBasicVariables[c + 1]
        /\ N.nonBasicVariables[c + 1] = T.basicVariables[r + 1]
        /\ \A i \in (1..Len(T.basicVariables)) \ {r + 1} :
               N.basicVariables[i] = T.basicVariables[i]
        /\ \A j \in (1..Len(T.nonBasicVariables)) \ {c + 1} :
               N.nonBasicVariables[j] = T.nonBasicVariables[j]
        /\ N.iteration = T.iteration + 1

PivotsOfTableau(T) ==
    {rc \in (0..(Len(T.basicVariables) - 1)) \X (0..(Len(T.nonBasicVariables) - 1)) :
        Lt(Zero, T.tableau[rc[1] + 1][rc[2] + 1])}

C21_PivotOperation ==
    Returned => \A k \in 1..Len(Solution.iterations) :
                   \A rc \in PivotsOfTableau(Solution.iterations[k]) :
                      IsPivotOf(Solution.iterations[k], rc[1], rc[2],
                                pivotOperation(Solution.iterations[k], rc[1], rc[2]))

\* solve has pivoted on an element other than 1, with a non-zero multiplier
\* in the objective row, and the next tableau of the history is that pivot
C21_Witness ==
    /\ Returned
    /\ Len(Solution.iterations) > 1
    /\ LET T == Solution.iterations[1]
           N == Solution.iterations[2]
       IN  /\ <<T.pivotRow, T.pivotColumn>> \in PivotsOfTableau(T)
           /\ T.tableau[T.pivotRow + 1][T.pivotColumn + 1] # One
           /\ T.objectiveRow[T.pivotColumn + 1] # Zero
           /\ N.tableau = pivotOperation(T, T.pivotRow, T.pivotColumn).tableau
           /\ N.basicVariables[T.pivotRow + 1] = T.nonBasicVariables[T.pivotColumn + 1]

(***************************************************************************)
(* C22: for an input with m constraints and n variables, the first tableau *)
(* of the history has constraint row i equal to [A[i] | i-th unit vector   *)
(* of length m | rhs[i]], objective row equal to [-c' | m zeros | 0] where *)
(* c' is c for maximize and -c for minimize, basicVariables = [s1..sm],    *)
(* nonBasicVariables = the declared variables in declared order, iteration *)
(* 0 and both flags false at creation.  The cells, the names and the       *)
(* iteration number are checked while solve runs and after it returned;    *)
(* the flags are checked before the first pass of the loop.                *)
(***************************************************************************)
IsFirstTableauOf(p, T) ==
    LET m == Len(p.constraints)
        n == Len(p.variables)
        c == ArgObjective(p)
    IN  /\ Len(T.tableau) = m + 1
        /\ \A i \in 1..(m + 1) : Len(T.tableau[i]) = n + m + 1
        /\ \A i \in 1..m :
               /\ \A j \in 1..n : T.tableau[i][j] = ArgMatrix(p)[i][j]
               /\ \A j \in 1..m : T.tableau[i][n + j] = (IF i = j THEN One ELSE Zero)
               /\ T.tableau[i][n + m + 1] = ArgRhs(p)[i]
        /\ \A j \in 1..n :
               T.tableau[m + 1][j] = (IF ArgIsMax(p) THEN Neg(c[j]) ELSE c[j])
        /\ \A j \in (n + 1)..(n + m + 1) : T.tableau[m + 1][j] = Zero
        /\ Len(T.basicVariables) = m
        /\ \A i \in 1..m : T.basicVariables[i] = SlackName(i - 1)
        /\ Len(T.nonBasicVariables) = n
        /\ \A j \in 1..n : T.nonBasicVariables[j] = p.variables[j]
        /\ T.iteration = 0

AtCreation == frame # <<>> /\ frame[1].iterationCount = 0

C22_FirstTableau ==
    /\ frame # <<>> => IsFirstTableauOf(problem, frame[1].iterations[1])
    /\ AtCreation => /\ Len(frame[1].iterations) = 1
                     /\ ~frame[1].iterations[1].isOptimal
                     /\ ~frame[1].iterations[1].isUnbounded
    /\ Returned => IsFirstTableauOf(problem, Solution.iterations[1])

\* the first tableau of a minimization with a non-zero objective has just
\* been created
C22_Witness ==
    /\ AtCreation
    /\ problem.type = "minimize"
    /\ \E j \in 1..Len(problem.variables) : ArgObjective(problem)[j] # Zero
    /\ frame[1].iterations[1].objectiveRow[1] = ArgObjective(problem)[1]

(***************************************************************************)
(* C23: the feasible points of computeGraphData are exactly the candidates *)
(* (origin, each constraint's axis intercepts for nonzero coefficients,    *)
(* pairwise line intersections with |determinant| >= 1e-8) that have       *)
(* x >= 0 and y >= 0 and satisfy every constraint according to that        *)
(* constraint's own operator within 1e-8, with candidates closer than 1e-6 *)
(* in both coordinates to an earlier kept point dropped.                   *)
(***************************************************************************)
Graphed == graphData # <<>> /\ Len(problem.variables) = 2

CoefA(c) == c.coefficients[1]
CoefB(c) == c.coefficients[2]
Det(c1, c2) == Sub(Mul(CoefA(c1), CoefB(c2)), Mul(CoefA(c2), CoefB(c1)))

\* Cramer's rule for the two lines
CrossingOf(c1, c2) ==
    Point(Div(Sub(Mul(c1.rhs, CoefB(c2)), Mul(c2.rhs, CoefB(c1))), Det(c1, c2)),
          Div(Sub(Mul(CoefA(c1), c2.rhs), Mul(CoefA(c2), c1.rhs)), Det(c1, c2)))

CandidateSet(p) ==
    LET cs == p.constraints
        K == 1..Len(cs)
    IN  {Point(Zero, Zero)}
        \cup {Point(Div(cs[k].rhs, CoefA(cs[k])), Zero) : k \in {i \in K : CoefA(cs[i]) # Zero}}
        \cup {Point(Zero, Div(cs[k].rhs, CoefB(cs[k]))) : k \in {i \in K : CoefB(cs[i]) # Zero}}
        \cup {CrossingOf(cs[ij[1]], cs[ij[2]]) :
                 ij \in {q \in K \X K : q[1] < q[2] /\ ~AbsLtTol8(Det(cs[q[1]], cs[q[2]]))}}

\* lhs - rhs <= 1e-8, rhs - lhs <= 1e-8, or both, by the operator
Satisfies(c, pt) ==
    LET lhs == Add(Mul(CoefA(c), pt.x), Mul(CoefB(c), pt.y))
    IN  CASE c.operator = "<=" -> LeTol8(Sub(lhs, c.rhs))
          [] c.operator = ">=" -> LeTol8(Sub(c.rhs, lhs))
          [] c.operator = "="  -> LeTol8(Sub(lhs, c.rhs)) /\ LeTol8(Sub(c.rhs, lhs))

Admissible(p, pt) ==
    /\ pt \in CandidateSet(p)
    /\ Le(Zero, pt.x)
    /\ Le(Zero, pt.y)
    /\ \A k \in 1..Len(p.constraints) : Satisfies(p.constraints[k], pt)

Close(a, b) == AbsLtTol6(Sub(a.x, b.x)) /\ AbsLtTol6(Sub(a.y, b.y))

FeasiblePointsAsClaimed(p, pts) ==
    /\ \A k \in 1..Len(pts) : Admissible(p, pts[k])
    /\ \A pt \in CandidateSet(p) :
           Admissible(p, pt) => \E k \in 1..Len(pts) : pts[k] = pt \/ Close(pts[k], pt)
    /\ \A i, j \in 1..Len(pts) : i < j => ~Close(pts[i], pts[j])

C23_FeasiblePoints ==
    Graphed => FeasiblePointsAsClaimed(problem, graphData[1].feasiblePoints)

\* a problem with a ">=" and an "=" constraint has been graphed: some
\* candidate with non-negative coordinates was rejected by a constraint and
\* another was kept
C23_Witness ==
    /\ Graphed
    /\ \E i, j \in 1..Len(problem.constraints) :
           problem.constraints[i].operator = ">=" /\ problem.constraints[j].operator = "="
    /\ Len(graphData[1].feasiblePoints) > 0
    /\ \E pt \in CandidateSet(problem) :
           Le(Zero, pt.x) /\ Le(Zero, pt.y) /\ ~Admissible(problem, pt)

\* the tolerances decide: a point is kept that violates a constraint by
\* less than 1e-8, and an admissible candidate was dropped as a duplicate
C23_ToleranceCase ==
    /\ Graphed
    /\ \E k \in 1..Len(graphData[1].feasiblePoints) : \E i \in 1..Len(problem.constraints) :
           ~SatisfiesConstraint_NoTolerance(problem.constraints[i], graphData[1].feasiblePoints[k])
    /\ \E pt \in CandidateSet(problem) :
           /\ Admissible(problem, pt)
           /\ \A k \in 1..Len(graphData[1].feasiblePoints) : graphData[1].feasiblePoints[k] # pt

(***************************************************************************)
(* C24: computeGraphData returns optimalPoint = null (with optimalValue 0) *)
(* exactly when no candidate is feasible; otherwise optimalPoint is a      *)
(* feasible point, optimalValue = objA*x + objB*y at that point, no        *)
(* feasible point has a strictly greater value (maximize) or strictly      *)
(* smaller value (minimize), and among feasible points of equal best value *)
(* the first in candidate order is the one returned.  null is <<>>.        *)
(***************************************************************************)
ValueAt(p, pt) ==
    Add(Mul(ArgObjective(p)[1], pt.x), Mul(ArgObjective(p)[2], pt.y))

Better(p, v, w) == IF ArgIsMax(p) THEN Lt(w, v) ELSE Lt(v, w)

OptimumAsClaimed(p, g) ==
    LET pts == g.feasiblePoints
    IN  /\ (g.optimalPoint = <<>>) <=> (\A pt \in CandidateSet(p) : ~Admissible(p, pt))
        /\ g.optimalPoint = <<>> => g.optimalValue = Zero /\ Len(pts) = 0
        /\ g.optimalPoint # <<>> =>
               \E k \in 1..Len(pts) :
                  /\ g.optimalPoint = <<pts[k]>>
                  /\ g.optimalValue = ValueAt(p, pts[k])
                  /\ \A i \in 1..Len(pts) : ~Better(p, ValueAt(p, pts[i]), g.optimalValue)
                  /\ \A i \in 1..(k - 1) : ValueAt(p, pts[i]) # g.optimalValue

C24_GraphicalOptimum == Graphed => OptimumAsClaimed(problem, graphData[1])

\* two feasible points share the best value and the earlier one is returned
C24_Witness ==
    /\ Graphed
    /\ graphData[1].optimalPoint # <<>>
    /\ \E i, j \in 1..Len(graphData[1].feasiblePoints) :
           /\ i < j
           /\ graphData[1].optimalPoint = <<graphData[1].feasiblePoints[i]>>
           /\ ValueAt(problem, graphData[1].feasiblePoints[j]) = graphData[1].optimalValue
           /\ graphData[1].optimalValue # Zero

(***************************************************************************)
(* C25: every tableau of the returned history that has both pivotRow and   *)
(* pivotColumn set describes one single pivot step: its entry at           *)
(* (pivotRow, pivotColumn) is strictly positive, and whenever              *)
(* enteringVariable or leavingVariable is set it equals that tableau's     *)
(* nonBasicVariables[pivotColumn] or basicVariables[pivotRow]              *)
(* respectively, including the last tableau of a run that ends unbounded.  *)
(***************************************************************************)
DescribesOnePivot(T) ==
    (T.pivotRow # UndefinedIndex /\ T.pivotColumn # UndefinedIndex)
        => /\ Lt(Zero, T.tableau[T.pivotRow + 1][T.pivotColumn + 1])
           /\ T.enteringVariable # UndefinedName
                  => T.enteringVariable = T.nonBasicVariables[T.pivotColumn + 1]
           /\ T.leavingVariable # UndefinedName
                  => T.leavingVariable = T.basicVariables[T.pivotRow + 1]

C25_PivotFieldsDescribeOneStep ==
    Returned => \A k \in 1..Len(Solution.iterations) :
                   DescribesOnePivot(Solution.iterations[k])

(***************************************************************************)
(* C26: the flags of the result agree with the step log: isUnbounded is    *)
(* true exactly when the last logged step has action 'unbounded', and      *)
(* isOptimal is true exactly when the log contains a step with action      *)
(* 'optimal', which is then the last step; the two flags are never both    *)
(* true.                                                                   *)
(***************************************************************************)
HasStep(steps, action) == \E k \in 1..Len(steps) : steps[k].action = action

FlagsAgreeWithLog(solution) ==
    /\ solution.isUnbounded <=> Last(solution.steps).action = "unbounded"
    /\ solution.isOptimal <=> HasStep(solution.steps, "optimal")
    /\ HasStep(solution.steps, "optimal") => Last(solution.steps).action = "optimal"
    /\ ~(solution.isOptimal /\ solution.isUnbounded)

C26_FlagsAgreeWithStepLog == Returned => FlagsAgreeWithLog(Solution)

(***************************************************************************)
(* C27: if every right-hand side of the input is >= 0, then in every       *)
(* tableau of the history the right-hand-side entry of every constraint    *)
(* row is >= 0: each pivot chosen by the minimum-ratio test keeps the      *)
(* basic solution feasible.                                                *)
(***************************************************************************)
RhsNonNegative(p) == \A i \in 1..Len(p.constraints) : Le(Zero, ArgRhs(p)[i])

RowsFeasible(T) ==
    \A i \in 1..(Len(T.tableau) - 1) :
       /\ Le(Zero, Last(T.tableau[i]))
       /\ Le(Zero, T.rhsColumn[i])

HistoryFeasible(iterations) == \A k \in 1..Len(iterations) : RowsFeasible(iterations[k])

C27_PivotsKeepRhsNonNegative ==
    RhsNonNegative(problem)
        => /\ frame # <<>> => HistoryFeasible(frame[1].iterations)
           /\ Returned => HistoryFeasible(Solution.iterations)

\* a pivot was made where another row with a positive entry had a strictly
\* larger ratio, and it changed a right-hand side
C27_Witness ==
    /\ Returned
    /\ RhsNonNegative(problem)
    /\ \E k \in 1..(Len(Solution.iterations) - 1) :
           LET T == Solution.iterations[k]
           IN  /\ \E q \in PositiveRows(T, T.pivotColumn) :
                      Lt(Ratio(T, T.pivotRow, T.pivotColumn), Ratio(T, q, T.pivotColumn))
               /\ Solution.iterations[k + 1].rhsColumn # T.rhsColumn

(***************************************************************************)
(* C28: if every right-hand side of the input is >= 0, the objective-row   *)
(* right-hand-side cell never decreases from one tableau of the history to *)
(* the next: each pivot adds (minimum ratio) x |objective entry of the     *)
(* entering column| >= 0 to it.                                            *)
(***************************************************************************)
ObjectiveCell(T) == Last(T.objectiveRow)

\* the amount the pivot recorded on tableau T adds to the objective cell
PivotGain(T) ==
    Mul(Ratio(T, T.pivotRow, T.pivotColumn), AbsQ(T.objectiveRow[T.pivotColumn + 1]))

ObjectiveNeverDecreases(iterations) ==
    \A k \in 1..(Len(iterations) - 1) :
       /\ Le(Zero, PivotGain(iterations[k]))
       /\ ObjectiveCell(iterations[k + 1]) = Add(ObjectiveCell(iterations[k]), PivotGain(iterations[k]))
       /\ Le(ObjectiveCell(iterations[k]), ObjectiveCell(iterations[k + 1]))

C28_ObjectiveCellNeverDecreases ==
    (Returned /\ RhsNonNegative(problem)) => ObjectiveNeverDecreases(Solution.iterations)

\* a history with a pivot that raised the objective cell and a degenerate
\* pivot that left it as it was
C28_Witness ==
    /\ Returned
    /\ RhsNonNegative(problem)
    /\ \E k \in 1..(Len(Solution.iterations) - 1) :
           Lt(ObjectiveCell(Solution.iterations[k]), ObjectiveCell(Solution.iterations[k + 1]))
    /\ \E k \in 1..(Len(Solution.iterations) - 1) :
           ObjectiveCell(Solution.iterations[k]) = ObjectiveCell(Solution.iterations[k + 1])

(***************************************************************************)
(* C29: the two copies of the solver, SimplexSolver in                     *)
(* src/lib/simplex-solver.ts and SimplexSolver in src/unnamed/part_002,    *)
(* return identical results (tableau history, step log, flags,             *)
(* optimalValue, optimalSolution) for every input.                         *)
(***************************************************************************)
SolvePart002(p) ==
    Part002_solve(ArgObjective(p), ArgMatrix(p), ArgRhs(p), ArgIsMax(p), ArgVariables(p))

IdenticalResults(a, b) ==
    /\ SameIterations(a.iterations, b.iterations)
    /\ SameSequence(a.steps, b.steps)
    /\ a.isOptimal = b.isOptimal
    /\ a.isUnbounded = b.isUnbounded
    /\ a.isFeasible = b.isFeasible
    /\ a.optimalValue = b.optimalValue
    /\ a.optimalSolution = b.optimalSolution

C29_CopiesReturnIdenticalResults ==
    Returned => IdenticalResults(SolvePart002(problem), Solution)

\* both copies have solved a problem with at least two pivots, one of them
\* on a tie of the ratio test, to a non-zero value
C29_Witness ==
    /\ Returned
    /\ Len(Solution.iterations) > 2
    /\ Solution.optimalValue # Zero
    /\ Len(SolvePart002(problem).iterations) = Len(Solution.iterations)
    /\ SolvePart002(problem).optimalValue = Solution.optimalValue
    /\ \E k \in 1..(Len(Solution.iterations) - 1) :
           LET T == Solution.iterations[k]
           IN  \E q \in PositiveRows(T, T.pivotColumn) :
                  /\ q # T.pivotRow
                  /\ Ratio(T, q, T.pivotColumn) = Ratio(T, T.pivotRow, T.pivotColumn)

====
